---------------------------- MODULE Spec2Model ----------------------------
(***************************************************************************)
(* MeshNetwork: three regional sites, each with a document store, an       *)
(* operation log and a replication daemon that pushes its log to the peers *)
(* and pulls theirs, resolving conflicts Last-Write-Wins.                  *)
(*                                                                         *)
(* Sources: src/backend/services/replication_engine.py, database.py,      *)
(* src/backend/routes/posts.py, users.py, src/backend/app.py.              *)
(***************************************************************************)
EXTENDS Integers, Sequences, FiniteSets, TLC

(***************************************************************************)
(* Bounds of the model.                                                    *)
(***************************************************************************)
MaxTime == 2
MaxWrites == 3
MaxCycles == 4
MaxFaults == 1

(***************************************************************************)
(* Sites and their configuration (config.REGION, config.REMOTE_REGIONS).   *)
(***************************************************************************)
Sites == {"na", "eu", "ap"}
RemoteRegions(s) == Sites \ {s}
\* REMOTE_REGIONS is a JSON list: the peers are visited in list order.
RemoteRegionList(s) ==
    CASE s = "na" -> <<"eu", "ap">>
      [] s = "eu" -> <<"na", "ap">>
      [] OTHER    -> <<"na", "eu">>

Collections == {"posts", "users"}
PostIds == {"p1"}
UserIds == {"u1"}
\* the sites that serve clients, and the text each site's clients write
Writers == {"na", "eu"}
Vals == {"A", "B", "C"}
ValOf(s) == IF s = "na" THEN "B" ELSE "C"
Absent == "none"

(***************************************************************************)
(* Timestamp values.  A field holds no value, a native datetime, an        *)
(* ISO-8601 string (datetime.isoformat) or an RFC-822 string (what Flask's *)
(* jsonify writes for a datetime).  t is the instant it denotes.           *)
(***************************************************************************)
NoTime == [k |-> "none", t |-> 0]
Dt(t) == [k |-> "dt", t |-> t]
Iso(t) == [k |-> "iso", t |-> t]
Http(t) == [k |-> "http", t |-> t]
Present(v) == v.k # "none"
IsStr(v) == v.k \in {"iso", "http"}
\* datetime.fromisoformat accepts the ISO form only (ValueError otherwise)
CanParse(v) == v.k = "iso"
FromIsoFormat(v) == Dt(v.t)
IsoFormat(v) == IF v.k = "dt" THEN Iso(v.t) ELSE v
\* the instant a field denotes, whatever its type
Instant(v) == IF Present(v) THEN v.t ELSE -1

(***************************************************************************)
(* Documents and payloads.  id is post_id / user_id, msg the message /     *)
(* name, ts the timestamp, lm last_modified, oid the store's _id: an       *)
(* ObjectId ("oid"), its string form ("str") or absent.  A payload is a    *)
(* document some of whose fields are absent.                               *)
(***************************************************************************)
Fields == {"id", "msg", "ts", "lm", "oid"}
NoDoc == [id |-> Absent, msg |-> Absent, ts |-> NoTime, lm |-> NoTime, oid |-> Absent]
HasField(d, f) ==
    CASE f = "ts" -> Present(d.ts)
      [] f = "lm" -> Present(d.lm)
      [] OTHER    -> d[f] # Absent

\* _serialize_for_json on a document: ObjectId -> str, datetime -> isoformat
SerializeDoc(d) ==
    [d EXCEPT !.ts = IsoFormat(d.ts), !.lm = IsoFormat(d.lm),
              !.oid = IF d.oid = "oid" THEN "str" ELSE d.oid]

\* _deserialize_timestamps: a string field that parses becomes a datetime,
\* one that does not is left as it is
DeserializeField(v) == IF IsStr(v) /\ CanParse(v) THEN FromIsoFormat(v) ELSE v
DeserializeTimestamps(d) ==
    [d EXCEPT !.ts = DeserializeField(d.ts), !.lm = DeserializeField(d.lm)]

(***************************************************************************)
(* Store adapter over one collection (a sequence in natural order).        *)
(***************************************************************************)
\* a lookup that never finds the document
FindNone(docs, id) == 0
\* find_one(collection, {<singular>_id: id}): index of the first match, 0 if none
FindOne(docs, id) ==
    IF \E i \in 1..Len(docs) : docs[i].id = id
    THEN CHOOSE i \in 1..Len(docs) :
            docs[i].id = id /\ \A j \in 1..(i - 1) : docs[j].id # id
    ELSE 0

\* whole-document replacement (what update_one does NOT do)
ReplaceFields(local, fields) == fields
\* {'$set': update}: the fields of the update are written, the others kept
SetFields(local, fields) ==
    [f \in Fields |-> IF HasField(fields, f) THEN fields[f] ELSE local[f]]

\* $set of _id to another value is refused by the store (immutable field)
SetRaises(local, fields) == fields.oid # Absent /\ fields.oid # local.oid

\* update_one(collection, {<singular>_id: id}, update)
UpdateOne(docs, id, fields) ==
    LET i == FindOne(docs, id) IN
    IF i = 0 THEN [raised |-> FALSE, docs |-> docs]
    ELSE IF SetRaises(docs[i], fields) THEN [raised |-> TRUE, docs |-> docs]
    ELSE [raised |-> FALSE, docs |-> [docs EXCEPT ![i] = SetFields(docs[i], fields)]]

\* delete_one(collection, {<singular>_id: id})
DeleteOne(docs, id) ==
    LET i == FindOne(docs, id) IN
    IF i = 0 THEN docs
    ELSE [j \in 1..(Len(docs) - 1) |-> IF j < i THEN docs[j] ELSE docs[j + 1]]

(***************************************************************************)
(* Conflict metrics.                                                       *)
(***************************************************************************)
RecentCap == 10
Outcomes == {"remote_wins", "local_wins", "unresolved"}
NoBreakdown == [present |-> FALSE, total |-> 0, remote_wins |-> 0,
                local_wins |-> 0, unresolved |-> 0]
NoMetrics == [total_conflicts |-> 0, remote_wins |-> 0, local_wins |-> 0,
              unresolved |-> 0,
              by_collection |-> [c \in Collections |-> NoBreakdown],
              recent_conflicts |-> <<>>]

\* a recorder that drops the newest record when the list is full
RecordConflictKeepOldest(m, collection, document_id, outcome, t) ==
    LET r == Append(m.recent_conflicts,
                    [collection |-> collection, document_id |-> document_id,
                     outcome |-> outcome, timestamp |-> Iso(t)])
    IN [m EXCEPT !.total_conflicts = @ + 1,
                 ![outcome] = @ + 1,
                 !.by_collection[collection] =
                     [@ EXCEPT !.present = TRUE, !.total = @ + 1, ![outcome] = @ + 1],
                 !.recent_conflicts =
                     IF Len(r) > RecentCap THEN SubSeq(r, 1, RecentCap) ELSE r]

\* _record_conflict
RecordConflict(m, collection, document_id, outcome, t) ==
    LET b == m.by_collection[collection]
        b2 == [b EXCEPT !.present = TRUE, !.total = @ + 1, ![outcome] = @ + 1]
        r == Append(m.recent_conflicts,
                    [collection |-> collection, document_id |-> document_id,
                     outcome |-> outcome, timestamp |-> Iso(t)])
    IN [m EXCEPT !.total_conflicts = @ + 1,
                 ![outcome] = @ + 1,
                 !.by_collection[collection] = b2,
                 !.recent_conflicts = IF Len(r) > RecentCap THEN Tail(r) ELSE r]

(***************************************************************************)
(* Conflict resolver (Last-Write-Wins).                                    *)
(***************************************************************************)
\* data.get('last_modified') or data.get('timestamp')
TimeOf(d) == IF Present(d.lm) THEN d.lm ELSE d.ts

EitherTimePresent(rt, lt) == Present(rt) \/ Present(lt)
\* if remote_time and local_time
BothTimesPresent(rt, lt) == Present(rt) /\ Present(lt)

RemoteIsNewerOrEqual(rt, lt) == rt.t >= lt.t
\* if remote_time > local_time
RemoteIsNewer(rt, lt) == rt.t > lt.t

\* the fields rewritten when local wins and holds string timestamps
StringFix(local, rt) ==
    [NoDoc EXCEPT !.ts = IF IsStr(local.ts) THEN Dt(rt.t) ELSE NoTime,
                  !.lm = IF IsStr(local.lm) THEN FromIsoFormat(local.lm) ELSE NoTime]

\* _resolve_conflict; t is the wall clock.  Returns the collection and the
\* metrics afterwards.  An exception anywhere inside is caught and logged.
ResolveConflict(docs, m, collection, document_id, remote, local, t) ==
    LET rt0 == TimeOf(remote)
        lt0 == TimeOf(local)
        same == [docs |-> docs, metrics |-> m]
    IN
    IF (IsStr(rt0) /\ ~CanParse(rt0)) \/ (IsStr(lt0) /\ ~CanParse(lt0))
    THEN same                                       \* ValueError, line 395
    ELSE
      LET rt == IF IsStr(rt0) THEN FromIsoFormat(rt0) ELSE rt0
          lt == IF IsStr(lt0) THEN FromIsoFormat(lt0) ELSE lt0
      IN
      IF BothTimesPresent(rt, lt) THEN
        IF RemoteIsNewer(rt, lt) THEN
          LET u == UpdateOne(docs, document_id, remote) IN
          IF u.raised THEN same
          ELSE [docs |-> u.docs,
                metrics |-> RecordConflict(m, collection, document_id, "remote_wins", t)]
        ELSE
          IF IsStr(local.ts) \/ IsStr(local.lm) THEN
            IF IsStr(local.lm) /\ ~CanParse(local.lm) THEN same
            ELSE
              LET u == UpdateOne(docs, document_id, StringFix(local, rt)) IN
              IF u.raised THEN same
              ELSE [docs |-> u.docs,
                    metrics |-> RecordConflict(m, collection, document_id, "local_wins", t)]
          ELSE [docs |-> docs,
                metrics |-> RecordConflict(m, collection, document_id, "local_wins", t)]
      ELSE [docs |-> docs,
            metrics |-> RecordConflict(m, collection, document_id, "unresolved", t)]

(***************************************************************************)
(* Operation log.  An entry is a document of the operation_log collection; *)
(* oid is its _id, synced_to the list of peers that acknowledged it.       *)
(***************************************************************************)
\* limit=100 of the push query and of /internal/changes, scaled to the model
BatchLimit == 2

\* queue_operation's document
NewEntry(oid, operation_type, collection, document_id, data, t, region) ==
    [oid |-> oid, operation_type |-> operation_type, collection |-> collection,
     document_id |-> document_id, data |-> data, timestamp |-> Dt(t),
     synced_to |-> <<>>, region_origin |-> region]

\* _serialize_for_json on an entry
SerializeOp(e) ==
    [e EXCEPT !.data = SerializeDoc(e.data), !.timestamp = IsoFormat(e.timestamp)]

InList(list, x) == \E i \in 1..Len(list) : list[i] = x
ListSet(list) == {list[i] : i \in 1..Len(list)}

\* {'$push': {'synced_to': region_url}}: appended unconditionally
PushToList(list, x) == Append(list, x)
\* {'$addToSet': {'synced_to': region_url}}: appended unless already there
AddToSet(list, x) == IF InList(list, x) THEN list ELSE Append(list, x)

\* an acknowledgement that writes nothing
SkipAck(log, oid, region_url) == log
\* update_one('operation_log', {'_id': op_id}, {'$addToSet': ...}) on a log
AckEntry(log, oid, region_url) ==
    [i \in 1..Len(log) |->
        IF log[i].oid = oid
        THEN [log[i] EXCEPT !.synced_to = AddToSet(@, region_url)]
        ELSE log[i]]

\* the first n elements of a sequence (cursor.limit(n))
Limit(seq, n) == SubSeq(seq, 1, IF Len(seq) < n THEN Len(seq) ELSE n)

\* the entries of a sequence whose _id is in keep, in order
RECURSIVE FilterSeq(_, _)
FilterSeq(seq, keep) ==
    IF seq = <<>> THEN <<>>
    ELSE IF Head(seq).oid \in keep
         THEN <<Head(seq)>> \o FilterSeq(Tail(seq), keep)
         ELSE FilterSeq(Tail(seq), keep)

\* 'synced_to': {'$all': remote_regions}: every peer is in the list
SyncedToAll(e, peers) == peers \subseteq ListSet(e.synced_to)

\* what the push query was meant to select: some peer has not acknowledged
MatchesUnsynced(e, region, peers) ==
    e.region_origin = region /\ ~SyncedToAll(e, peers)
\* The push query {'region_origin': r, 'synced_to': {'$ne': {'$all': peers}}}.
\* $ne takes a value, not an operator expression: it compares synced_to with
\* the document {'$all': [...]}, which no list and no element of one equals,
\* so every entry of the region matches.
MatchesPushQuery(e, region, peers) ==
    e.region_origin = region

\* the reverse of a sequence
Reverse(seq) == [i \in 1..Len(seq) |-> seq[Len(seq) + 1 - i]]
\* a batch taken newest first
NewestFirst(log, region, peers) ==
    Limit(Reverse(FilterSeq(log, {e.oid : e \in {x \in ListSet(log) :
                                                  x.region_origin = region}})),
          BatchLimit)
\* _push_local_changes' find_many: natural (insertion) order, limit
PushBatch(log, region, peers) ==
    Limit(FilterSeq(log, {e.oid : e \in {x \in ListSet(log) :
                                          MatchesPushQuery(x, region, peers)}}),
          BatchLimit)

(***************************************************************************)
(* Apply-operations (_apply_operations), on a site's collections st.       *)
(***************************************************************************)
\* a store that accepts a second document with the _id of a stored one
NoDuplicateKey(docs, data) == FALSE

\* insert_one raises DuplicateKeyError: the collection holds a document with
\* the _id of the new one.  The _id a pushed insert carries is the string
\* of the ObjectId its origin gave the document, one per document id; an
\* _id the driver adds is new.
DuplicateKey(docs, data) ==
    /\ data.oid = "str"
    /\ \E i \in 1..Len(docs) : docs[i].oid = "str" /\ docs[i].id = data.id

\* insert_one: the driver adds an ObjectId _id to a document that has none
InsertOne(docs, data) ==
    Append(docs, IF data.oid = Absent THEN [data EXCEPT !.oid = "oid"] ELSE data)

\* the collections and metrics of a site after a conflict was resolved
Resolved(g, c, r) ==
    [g EXCEPT !.store[c] = r.docs, !.metrics = r.metrics]

\* The application of this entry raises before it changes anything: the
\* entry has no collection (collection[:-1] on None), or the store fails at
\* the entry's first call (an entry so marked).
Raises(op) == op.collection \notin Collections \/ "store_error" \in DOMAIN op

\* One operation of _apply_operations on g.store and g.metrics.  An insert
\* and an update do the same: resolve against the stored document if there
\* is one, insert the operation's data otherwise.  What an entry raises is
\* caught in the loop body.
ApplyOne(g, op, t) ==
    LET c == op.collection
        id == op.document_id
        docs == g.store[c]
        i == FindOne(docs, id)
    IN CASE Raises(op) -> g
         [] op.operation_type \in {"insert", "update"} ->
              IF i = 0
              THEN [g EXCEPT !.store[c] =
                       InsertOne(docs, DeserializeTimestamps(op.data))]
              ELSE Resolved(g, c,
                       ResolveConflict(docs, g.metrics, c, id,
                                       DeserializeTimestamps(op.data), docs[i], t))
         [] OTHER -> [g EXCEPT !.store[c] = DeleteOne(docs, id)]

\* a loop that leaves the batch at the first entry that raises
RECURSIVE ApplyUntilFailure(_, _, _)
ApplyUntilFailure(g, ops, t) ==
    IF ops = <<>> \/ Raises(Head(ops)) THEN g
    ELSE ApplyUntilFailure(ApplyOne(g, Head(ops), t), Tail(ops), t)

RECURSIVE ApplyOperations(_, _, _)
ApplyOperations(g, ops, t) ==
    IF ops = <<>> THEN g
    ELSE ApplyOperations(ApplyOne(g, Head(ops), t), Tail(ops), t)

(***************************************************************************)
(* Liveness tracker and island mode (in-memory state of the engine).       *)
(***************************************************************************)
\* island_mode_threshold = 10 s, in clock ticks of the model (5 s each)
IslandModeThreshold == 2

NoStatus == [known |-> FALSE, connected |-> FALSE, last_success |-> NoTime,
             last_attempt |-> NoTime, consecutive_failures |-> 0]
NewEngine(s) == [region_status |-> [p \in RemoteRegions(s) |-> NoStatus],
                 island_mode_active |-> FALSE,
                 island_mode_start_time |-> NoTime,
                 cleanup_counter |-> 0]

ConnectedRegions(e) ==
    Cardinality({p \in DOMAIN e.region_status :
                    e.region_status[p].known /\ e.region_status[p].connected})

\* an island check that does not wait for the threshold
IslandAtOnce(e, peers, t) ==
    IF peers = 0 \/ ConnectedRegions(e) # 0
    THEN [e EXCEPT !.island_mode_active = FALSE, !.island_mode_start_time = NoTime]
    ELSE IF Present(e.island_mode_start_time)
         THEN [e EXCEPT !.island_mode_active = TRUE]
         ELSE [e EXCEPT !.island_mode_start_time = Dt(t)]

\* _check_island_mode (total_regions = len(remote_regions) = peers)
CheckIslandMode(e, peers, t) ==
    IF peers = 0 THEN
        IF e.island_mode_active
        THEN [e EXCEPT !.island_mode_active = FALSE, !.island_mode_start_time = NoTime]
        ELSE e
    ELSE IF ConnectedRegions(e) = 0 THEN
        IF ~e.island_mode_active THEN
            IF ~Present(e.island_mode_start_time)
            THEN [e EXCEPT !.island_mode_start_time = Dt(t)]
            ELSE IF t - e.island_mode_start_time.t >= IslandModeThreshold
                 THEN [e EXCEPT !.island_mode_active = TRUE]
                 ELSE e
        ELSE e
    ELSE IF e.island_mode_active \/ Present(e.island_mode_start_time)
         THEN [e EXCEPT !.island_mode_active = FALSE, !.island_mode_start_time = NoTime]
         ELSE e

\* a status update that records a failure without counting it
FailureNotCounted(e, region_url, is_connected, t) ==
    CheckIslandMode([e EXCEPT !.region_status[region_url] =
                        [known |-> TRUE, connected |-> is_connected,
                         last_success |-> IF is_connected THEN Dt(t) ELSE @.last_success,
                         last_attempt |-> Dt(t),
                         consecutive_failures |-> IF is_connected THEN 0 ELSE 1]],
                    Cardinality(DOMAIN e.region_status), t)

\* _update_region_status
UpdateRegionStatus(e, region_url, is_connected, t) ==
    LET old == e.region_status[region_url]
        new == IF ~old.known
               THEN [known |-> TRUE, connected |-> is_connected,
                     last_success |-> IF is_connected THEN Dt(t) ELSE NoTime,
                     last_attempt |-> Dt(t),
                     consecutive_failures |-> IF is_connected THEN 0 ELSE 1]
               ELSE [old EXCEPT !.connected = is_connected,
                                !.last_attempt = Dt(t),
                                !.last_success = IF is_connected THEN Dt(t) ELSE @,
                                !.consecutive_failures =
                                    IF is_connected THEN 0 ELSE @ + 1]
    IN CheckIslandMode([e EXCEPT !.region_status[region_url] = new],
                       Cardinality(DOMAIN e.region_status), t)

(***************************************************************************)
(* State.                                                                  *)
(***************************************************************************)
VARIABLES
    now,          \* the wall clock (the sites' clocks are synchronized)
    store,        \* store[s][c]: the documents of collection c at site s
    oplog,        \* oplog[s]: the operation_log collection of site s
    logSeq,       \* logSeq[s]: number of entries site s has ever logged
    syncMeta,     \* syncMeta[s]: the sync_metadata collection of site s
    engine,       \* engine[s]: region_status, island mode, cleanup_counter
    metrics,      \* metrics[s]: ReplicationEngine.conflict_metrics
    pc,           \* pc[s]: where the sync loop of site s stands
    cycles,       \* iterations of the sync loops begun so far, all sites together
    isolated,     \* the sites cut off from the inter-site network
    faults,       \* number of faults injected so far
    writes,       \* number of accepted client mutations so far
    usedIds,      \* the uuids handed out so far
    wrote,        \* the sites that cannot stamp a write with the current instant
    resp,         \* the response of the write handler that has just returned
    lastPush,     \* the batch and outcome of the push phase that has just ended
    resolveCall,  \* the arguments of the _resolve_conflict call under study
    contacts,     \* the peer contacts of the sync iteration under study
    gather,       \* the scatter_gather call under study
    daemon,       \* the sync daemon of the engine under study: flag and workers
    threads,      \* threads[th]: position and locals of thread th inside engine code
    observed      \* what callers were handed and what was recorded, for the claims

vars == <<now, store, oplog, logSeq, syncMeta, engine, metrics, pc, cycles,
          isolated, faults, writes, usedIds, wrote, resp, lastPush, resolveCall, contacts,
          gather, daemon, threads, observed>>

NoCall == [done |-> FALSE, site |-> "na", collection |-> "posts",
           document_id |-> Absent, remote |-> NoDoc, local |-> NoDoc,
           before |-> NoMetrics]

(***************************************************************************)
(* SpecResolve: _resolve_conflict applied once at site "na" to a local     *)
(* document and a remote payload drawn from bounded sets.                  *)
(***************************************************************************)
ResolveLocalTimes == {NoTime, Dt(1), Dt(2), Iso(1), Iso(2)}
ResolveRemoteTimes == {NoTime, Dt(1), Dt(2), Dt(3), Iso(2), Iso(3)}

ResolveLocals ==
    {[id |-> "p1", msg |-> "A", ts |-> ts, lm |-> lm, oid |-> o] :
        ts \in ResolveLocalTimes, lm \in ResolveLocalTimes, o \in {"oid", "str"}}
\* an insert payload is a whole document with its _id as a string; an update
\* payload carries the changed fields and, for posts, last_modified
ResolveRemotes ==
    {[id |-> "p1", msg |-> "B", ts |-> ts, lm |-> lm, oid |-> "str"] :
        ts \in ResolveRemoteTimes, lm \in ResolveRemoteTimes}
    \cup
    {[id |-> Absent, msg |-> v, ts |-> NoTime, lm |-> lm, oid |-> Absent] :
        v \in {"B", Absent}, lm \in ResolveRemoteTimes}

SomeMetrics ==
    RecordConflict(RecordConflict(NoMetrics, "posts", "p2", "local_wins", 0),
                   "users", "u1", "unresolved", 0)

\* the JSON body of a POST /api/posts request, field by field; Absent is a
\* missing field, and the body with no field at all is {}
EmptyBody == [user_id |-> Absent, post_type |-> Absent, message |-> Absent,
              region |-> Absent, location |-> Absent]

NoResp == [site |-> "na", handler |-> "none", status |-> 0,
           operation_type |-> Absent, collection |-> Absent,
           document_id |-> Absent, appended |-> <<>>, body |-> EmptyBody]
NoPush == [site |-> "na", batch |-> {}, connected |-> {}, answered |-> {}]
\* no scatter_gather call has been made
NoGather == [state |-> "idle", peers |-> <<>>, min_responses |-> 0, pending |-> {},
             answer |-> <<>>, successful_regions |-> <<>>, failed_regions |-> <<>>,
             all_results |-> <<>>,
             success_rate |-> [num |-> 0, den |-> 1], total_regions_queried |-> 0]
\* the engine as __init__ leaves it: not running, no thread
NoDaemon == [running |-> FALSE, sync_thread |-> 0, worker |-> <<>>, joining |-> 0,
             calls |-> 0, iterations |-> 0, began |-> {}]

\* the threads of one site that run engine code at the same time: the sync
\* daemon's worker and a request handler of the threaded server
ThreadNames == {"daemon", "handler"}
\* a thread outside any call: at is its position, the rest its locals
NoThread == [at |-> "idle", collection |-> "posts", document_id |-> Absent,
             outcome |-> "unresolved", reg |-> 0, existing |-> FALSE,
             region_url |-> "eu", is_connected |-> FALSE, operations |-> <<>>,
             local |-> NoDoc]
NoThreads == [th \in ThreadNames |-> NoThread]
\* what get_island_mode_status has read so far (nothing yet)
NoStatusResult == [is_island |-> FALSE, isolation_start |-> NoTime,
                   connected_regions |-> 0, raised |-> FALSE]
\* nothing recorded or returned yet
NoObserved == [calls |-> 0, history |-> <<>>, taken |-> FALSE,
               snapshot |-> NoMetrics, at_return |-> NoMetrics,
               result |-> NoStatusResult, returned |-> FALSE, pulled |-> {},
               events |-> {}]

\* everything but the clock, the stores, the metrics, the engines and
\* resolveCall
InitRest ==
    /\ oplog = [s \in Sites |-> <<>>]
    /\ logSeq = [s \in Sites |-> 0]
    /\ syncMeta = [s \in Sites |-> <<>>]
    /\ pc = [s \in Sites |-> "push"]
    /\ contacts = <<>>
    /\ gather = NoGather
    /\ daemon = NoDaemon
    /\ threads = NoThreads
    /\ observed = NoObserved
    /\ cycles = 0
    /\ isolated = {}
    /\ faults = 0
    /\ writes = 0
    /\ usedIds = {}
    /\ wrote = {}
    /\ resp = NoResp
    /\ lastPush = NoPush

InitResolve ==
    /\ now = 3
    /\ engine = [s \in Sites |-> NewEngine(s)]
    /\ InitRest
    /\ \E c \in Collections, l \in ResolveLocals, r \in ResolveRemotes,
          m \in {NoMetrics, SomeMetrics} :
          \* a site never receives the insert of a document it created itself
          /\ ~(r.oid = "str" /\ l.oid = "oid")
          /\ store = [s \in Sites |-> [cc \in Collections |->
                        IF s = "na" /\ cc = c THEN <<l>> ELSE <<>>]]
          /\ metrics = [s \in Sites |-> IF s = "na" THEN m ELSE NoMetrics]
          /\ resolveCall = [NoCall EXCEPT !.collection = c, !.document_id = "p1",
                                          !.remote = r, !.local = l, !.before = m]

ResolveStep ==
    /\ ~resolveCall.done
    /\ LET c == resolveCall.collection
           res == ResolveConflict(store["na"][c], metrics["na"], c,
                                  resolveCall.document_id, resolveCall.remote,
                                  resolveCall.local, now)
       IN /\ store' = [store EXCEPT !["na"][c] = res.docs]
          /\ metrics' = [metrics EXCEPT !["na"] = res.metrics]
    /\ resolveCall' = [resolveCall EXCEPT !.done = TRUE]
    /\ UNCHANGED <<now, oplog, logSeq, syncMeta, engine, pc, cycles, isolated,
                   faults, writes, usedIds, wrote, resp, lastPush, contacts,
                   gather, daemon,
                   threads, observed>>

NextResolve == ResolveStep

SpecResolve == InitResolve /\ [][NextResolve]_vars


(***************************************************************************)
(* Claims about the conflict resolver, checked under SpecResolve.          *)
(***************************************************************************)
CallColl == resolveCall.collection
CallRemoteTime == TimeOf(resolveCall.remote)
CallLocalTime == TimeOf(resolveCall.local)
\* the local document after the call (the collection holds just that one)
CallAfter == store["na"][CallColl][1]

\* exactly one conflict with this outcome was recorded by the call
RecordedOnce(outcome) ==
    LET m == metrics["na"]
        b == resolveCall.before
        c == CallColl
    IN /\ m.total_conflicts = b.total_conflicts + 1
       /\ \A o \in Outcomes : m[o] = b[o] + (IF o = outcome THEN 1 ELSE 0)
       /\ m.by_collection[c].present
       /\ m.by_collection[c].total = b.by_collection[c].total + 1
       /\ \A o \in Outcomes :
             m.by_collection[c][o] = b.by_collection[c][o] + (IF o = outcome THEN 1 ELSE 0)
       /\ \A c2 \in Collections \ {c} : m.by_collection[c2] = b.by_collection[c2]
       /\ Len(m.recent_conflicts) = Len(b.recent_conflicts) + 1
       /\ LET r == m.recent_conflicts[Len(m.recent_conflicts)]
          IN r.collection = c /\ r.document_id = resolveCall.document_id
             /\ r.outcome = outcome

C4Case ==
    /\ resolveCall.done
    /\ Present(CallRemoteTime) /\ Present(CallLocalTime)
    /\ Instant(CallRemoteTime) > Instant(CallLocalTime)

C5Case ==
    /\ resolveCall.done
    /\ Present(CallRemoteTime) /\ Present(CallLocalTime)
    /\ Instant(CallRemoteTime) <= Instant(CallLocalTime)

\* C5: when both versions carry a timestamp and remote <= local, the local
\* document's content (its fields and the instants of its timestamps) is
\* unchanged and exactly one local_wins conflict is recorded.
C5_LocalKept ==
    C5Case => /\ CallAfter.id = resolveCall.local.id
              /\ CallAfter.msg = resolveCall.local.msg
              /\ CallAfter.oid = resolveCall.local.oid
              /\ Instant(CallAfter.ts) = Instant(resolveCall.local.ts)
              /\ Instant(CallAfter.lm) = Instant(resolveCall.local.lm)
              /\ RecordedOnce("local_wins")

C7Case ==
    /\ resolveCall.done
    /\ ~Present(CallRemoteTime) \/ ~Present(CallLocalTime)

\* C7: when the remote or the local version has neither last_modified nor
\* timestamp, the local document is left unchanged and exactly one
\* unresolved conflict is recorded.
C7_Unresolved ==
    C7Case => /\ store["na"][CallColl] = <<resolveCall.local>>
              /\ RecordedOnce("unresolved")

\* the remote version has no timestamp, the local one has
C7_Witness ==
    /\ C7Case
    /\ ~Present(CallRemoteTime) /\ Present(CallLocalTime)
    /\ metrics["na"].unresolved = resolveCall.before.unresolved + 1


(***************************************************************************)
(* Public write handlers (routes/posts.py, routes/users.py).  outcome is   *)
(* what the request meets: "ok", "invalid" (validation fails),            *)
(* "store_error" (the store raises on the handler's own read or write) or  *)
(* "log_error" (the store raises on the insert into operation_log).        *)
(***************************************************************************)
\* uuid.uuid4(): an id nobody holds yet
NextId(pool) == CHOOSE id \in pool \ usedIds : TRUE

\* queue_operation: the insert into operation_log; an exception is logged
\* and swallowed
QueueOperation(log, seq, logOk, operation_type, collection, document_id, data, t, region) ==
    IF logOk
    THEN Append(log, NewEntry(seq + 1, operation_type, collection, document_id,
                              data, t, region))
    ELSE log

\* whether the model may inject one more fault
CanFail == faults < MaxFaults

\* the handler answers an error without having touched the store
Reject(s, handler, status) ==
    /\ resp' = [NoResp EXCEPT !.status = status]
    /\ UNCHANGED <<now, store, oplog, logSeq, syncMeta, engine, metrics, pc, cycles,
                   isolated, faults, writes, usedIds, wrote, resolveCall, contacts,
                   gather, daemon,
                   threads, observed>>
    /\ lastPush' = NoPush

\* the handler wrote collection c (docs2), queued the operation and answers
Accept(s, handler, status, c, docs2, operation_type, document_id, data, logOk, ids, body) ==
    /\ logOk \/ CanFail
    \* a site's clock gives no two of its writes the same instant, and a write
    \* that follows a sync step is later than every write before that step
    /\ s \notin wrote
    /\ wrote' = wrote \cup {s}
    /\ faults' = IF logOk THEN faults ELSE faults + 1
    /\ store' = [store EXCEPT ![s][c] = docs2]
    /\ oplog' = [oplog EXCEPT ![s] =
                    QueueOperation(@, logSeq[s], logOk, operation_type, c,
                                   document_id, data, now, s)]
    /\ logSeq' = [logSeq EXCEPT ![s] = IF logOk THEN @ + 1 ELSE @]
    /\ writes' = writes + 1
    /\ usedIds' = usedIds \cup ids
    /\ resp' = [site |-> s, handler |-> handler, status |-> status,
                operation_type |-> operation_type, collection |-> c,
                document_id |-> document_id,
                appended |-> SubSeq(oplog'[s], Len(oplog[s]) + 1, Len(oplog'[s])),
                body |-> body]
    /\ lastPush' = NoPush
    /\ UNCHANGED <<now, syncMeta, engine, metrics, pc, cycles, isolated, resolveCall, contacts,
                   gather, daemon,
                   threads, observed>>

\* Clients, the clock and the network act between iterations of the sync
\* loops: an iteration takes milliseconds, the events of the model seconds.
Idle == \A s \in Sites : pc[s] = "push"
\* handlers that turn clients away while some site is in island mode
CanWriteConnected ==
    Idle /\ writes < MaxWrites /\ \A s \in Sites : ~engine[s].island_mode_active
CanWrite == Idle /\ writes < MaxWrites
WriteOutcomes == {"ok", "log_error", "store_error"}

\* Post.to_dict() of a new post
NewPost(id, t) == [id |-> id, msg |-> "A", ts |-> Dt(t), lm |-> Dt(t), oid |-> Absent]
\* User.to_dict() of a new user: neither timestamp nor last_modified
NewUser(id) == [id |-> id, msg |-> "A", ts |-> NoTime, lm |-> NoTime, oid |-> Absent]

\* the document as the driver leaves it after insert_one (with its _id)
Inserted(docs2) == docs2[Len(docs2)]

\* the bodies the clients of the model send
GoodBody == [user_id |-> "u1", post_type |-> "help", message |-> "m",
             region |-> Absent, location |-> "point"]
GarbageBody == [GoodBody EXCEPT !.post_type = "garbage"]
PostBodies ==
    {GoodBody, EmptyBody, GarbageBody,
     [GoodBody EXCEPT !.user_id = Absent],
     [GoodBody EXCEPT !.post_type = Absent],
     [GoodBody EXCEPT !.message = ""],
     [GoodBody EXCEPT !.message = "number"],
     [GoodBody EXCEPT !.message = "number", !.post_type = "garbage"],
     [GoodBody EXCEPT !.region = ""],
     [GoodBody EXCEPT !.region = "mars"],
     [GoodBody EXCEPT !.location = Absent],
     [GoodBody EXCEPT !.location = "not_point"]}

ValidTypes == {"shelter", "food", "medical", "water", "safety", "help"}

\* a validation that lets every body through
ValidateAnything(body) == "ok"

\* Post.validate on the Post that create_post builds from the body: "ok",
\* "rejected" (it returns False and a message) or "raised".  A missing region
\* is replaced by config.REGION and a missing location by a default point
\* before validation; a message that is a non-zero number has no strip().
ValidatePost(body) ==
    IF body.user_id = Absent THEN "rejected"
    ELSE IF body.post_type = Absent THEN "rejected"
    ELSE IF body.post_type \notin ValidTypes THEN "rejected"
    ELSE IF body.message = "number" THEN "raised"
    ELSE IF body.message \in {Absent, ""} THEN "rejected"
    ELSE IF body.region = "" THEN "rejected"
    ELSE IF body.location = "not_point" THEN "rejected"
    ELSE "ok"

\* the handler answers an error to a request with this body, without having
\* touched the store
RejectBody(s, handler, status, body) ==
    /\ resp' = [NoResp EXCEPT !.site = s, !.handler = handler, !.status = status,
                              !.body = body]
    /\ UNCHANGED <<now, store, oplog, logSeq, syncMeta, engine, metrics, pc, cycles,
                   isolated, faults, writes, usedIds, wrote, resolveCall, contacts,
                   gather, daemon,
                   threads, observed>>
    /\ lastPush' = NoPush

\* POST /api/posts with this body
CreatePostWith(s, body, outcome) ==
    /\ CanWrite
    /\ CASE body = EmptyBody -> RejectBody(s, "create_post", 400, body)
         [] ValidatePost(body) = "raised" -> RejectBody(s, "create_post", 500, body)
         [] ValidatePost(body) = "rejected" -> RejectBody(s, "create_post", 400, body)
         [] outcome = "store_error" -> Reject(s, "create_post", 500)
         [] OTHER ->
               /\ PostIds \ usedIds # {}
               /\ LET id == NextId(PostIds)
                      docs2 == InsertOne(store[s]["posts"], NewPost(id, now))
                  IN Accept(s, "create_post", 201, "posts", docs2, "insert", id,
                            Inserted(docs2), outcome = "ok", {id}, body)

\* POST /api/posts; the outcome "invalid" is a body that fails validation
CreatePost(s, outcome) ==
    CreatePostWith(s, IF outcome = "invalid" THEN GarbageBody ELSE GoodBody, outcome)

\* PUT /api/posts/<post_id>
UpdatePost(s, id, outcome) ==
    /\ CanWrite
    /\ LET docs == store[s]["posts"]
           update_data == [NoDoc EXCEPT !.msg = ValOf(s), !.lm = Dt(now)]
       IN CASE outcome = "store_error" -> Reject(s, "update_post", 500)
            [] FindOne(docs, id) = 0 -> Reject(s, "update_post", 404)
            [] OTHER -> Accept(s, "update_post", 200, "posts",
                               UpdateOne(docs, id, update_data).docs, "update", id,
                               update_data, outcome = "ok", {}, EmptyBody)

\* DELETE /api/posts/<post_id>
DeletePost(s, id, outcome) ==
    /\ CanWrite
    /\ LET docs == store[s]["posts"]
       IN CASE outcome = "store_error" -> Reject(s, "delete_post", 500)
            [] FindOne(docs, id) = 0 -> Reject(s, "delete_post", 404)
            [] OTHER -> Accept(s, "delete_post", 200, "posts", DeleteOne(docs, id),
                               "delete", id, NoDoc, outcome = "ok", {}, EmptyBody)

\* POST /api/users; every user of the model has the same email, so a user
\* that is already stored is a duplicate (409)
CreateUser(s, outcome) ==
    /\ CanWrite /\ UserIds \ usedIds # {}
    /\ LET id == NextId(UserIds)
           docs == store[s]["users"]
           docs2 == InsertOne(docs, NewUser(id))
       IN CASE outcome = "invalid" -> Reject(s, "create_user", 400)
            [] outcome = "store_error" -> Reject(s, "create_user", 500)
            [] \E i \in 1..Len(docs) : docs[i].id # Absent ->
                   Reject(s, "create_user", 409)
            [] OTHER -> Accept(s, "create_user", 201, "users", docs2, "insert", id,
                               Inserted(docs2), outcome = "ok", {id}, EmptyBody)

\* PUT /api/users/<user_id>
UpdateUser(s, id, outcome) ==
    /\ CanWrite
    /\ LET docs == store[s]["users"]
           update_data == [NoDoc EXCEPT !.msg = ValOf(s)]
       IN CASE outcome = "store_error" -> Reject(s, "update_user", 500)
            [] FindOne(docs, id) = 0 -> Reject(s, "update_user", 404)
            [] OTHER -> Accept(s, "update_user", 200, "users",
                               UpdateOne(docs, id, update_data).docs, "update", id,
                               update_data, outcome = "ok", {}, EmptyBody)

\* POST /api/mark-safe
MarkSafe(s, uid, outcome) ==
    /\ CanWrite /\ PostIds \ usedIds # {}
    /\ LET id == NextId(PostIds)
           docs2 == InsertOne(store[s]["posts"], NewPost(id, now))
       IN CASE outcome = "store_error" -> Reject(s, "mark_user_safe", 500)
            [] FindOne(store[s]["users"], uid) = 0 -> Reject(s, "mark_user_safe", 404)
            [] OTHER -> Accept(s, "mark_user_safe", 200, "posts", docs2, "insert", id,
                               Inserted(docs2), outcome = "ok", {id}, EmptyBody)


(***************************************************************************)
(* Replication daemon (_sync_loop): push phase, pull phase, cleanup tick.  *)
(***************************************************************************)
\* cleanup_counter >= 60, scaled to the model
CleanupEvery == 2
\* max_age_hours = 24, in clock ticks of the model
RetentionTicks == 1

Reachable(s, p) == s \notin isolated /\ p \notin isolated

\* What a push to one peer meets.  "unreachable": the request raises or times
\* out undelivered.  "lost": the peer applied the batch, but its answer never
\* arrived (the request times out).  "ok": 200 and every acknowledgement is
\* written.  "failed": 200, and the store raised after `acks`
\* acknowledgements.
PushOutcome(kind, acks) == [kind |-> kind, acks |-> acks]
AllowedPush(s, p, n) ==
    IF ~Reachable(s, p) THEN {PushOutcome("unreachable", 0)}
    ELSE IF ~CanFail THEN {PushOutcome("ok", n)}
    ELSE {PushOutcome("ok", n), PushOutcome("lost", 0)}
            \cup {PushOutcome("failed", k) : k \in 0..(n - 1)}

\* the acknowledgement loop of _push_to_region over the first k operations
RECURSIVE AckFirst(_, _, _, _)
AckFirst(log, ops, region_url, k) ==
    IF k = 0 \/ ops = <<>> THEN log
    ELSE AckFirst(AckEntry(log, Head(ops).oid, region_url), Tail(ops), region_url, k - 1)

\* an endpoint that answers 200 only when the batch changed the collections
ReceiveSyncIfApplied(g, operations, t) ==
    IF operations = <<>> THEN [status |-> 400, site |-> g]
    ELSE IF ApplyOperations(g, operations, t).store = g.store
    THEN [status |-> 500, site |-> ApplyOperations(g, operations, t)]
    ELSE [status |-> 200, site |-> ApplyOperations(g, operations, t)]

\* POST /internal/sync at the receiving site (receive_sync): the batch is
\* applied to the site's collections and metrics g; the answer is 200 (400
\* for an empty batch)
ReceiveSync(g, operations, t) ==
    IF operations = <<>> THEN [status |-> 400, site |-> g]
    ELSE [status |-> 200, site |-> ApplyOperations(g, operations, t)]

\* the peer's collections and metrics, as the push request finds them
SiteOf(g, p) == [store |-> g.store[p], metrics |-> g.metrics[p]]

\* _push_to_region after the request was delivered; r is what the peer did
\* and answered.  g.answered collects the peers whose answer (200) arrived.
PushAnswered(g, p, ops, outcome, t, r) ==
    LET g1 == [g EXCEPT !.store[p] = r.site.store, !.metrics[p] = r.site.metrics]
    IN IF outcome.kind = "lost" \/ r.status # 200
       THEN [g1 EXCEPT !.eng = UpdateRegionStatus(@, p, FALSE, t)]
       ELSE IF outcome.kind = "ok"
       THEN [g1 EXCEPT !.log = AckFirst(@, ops, p, Len(ops)),
                       !.eng = UpdateRegionStatus(@, p, TRUE, t),
                       \* region_status[p]['connected'] is True from here on
                       !.connected = @ \cup {p},
                       !.answered = @ \cup {p}]
       ELSE [g1 EXCEPT !.log = AckFirst(@, ops, p, outcome.acks),
                       !.eng = UpdateRegionStatus(@, p, FALSE, t),
                       !.answered = @ \cup {p}]

\* _push_to_region.  g holds the stores and metrics of all sites, the log and
\* the engine of the pushing site s, and the peers this push phase recorded
\* as connected.
PushToRegion(g, s, p, ops, outcome, t) ==
    IF outcome.kind = "unreachable"
    THEN [g EXCEPT !.eng = UpdateRegionStatus(@, p, FALSE, t)]
    ELSE PushAnswered(g, p, ops, outcome, t,
                      ReceiveSync(SiteOf(g, p),
                                  [i \in 1..Len(ops) |-> SerializeOp(ops[i])], t))

RECURSIVE PushAll(_, _, _, _, _, _)
PushAll(g, s, peers, ops, out, t) ==
    IF peers = <<>> THEN g
    ELSE PushAll(PushToRegion(g, s, Head(peers), ops, out[Head(peers)], t),
                 s, Tail(peers), ops, out, t)

\* Every loop sleeps the same SYNC_INTERVAL between iterations, so the sites
\* iterate in turn.
SiteOrder == <<"na", "eu", "ap">>
Turn == SiteOrder[(cycles % Len(SiteOrder)) + 1]

\* the faults a choice of push outcomes injects
FailedPushes(s, out) ==
    Cardinality({p \in RemoteRegions(s) : out[p].kind \in {"failed", "lost"}})

\* the state a push phase of site s leaves, g being what PushAll returns
PushDone(s, ops, g) ==
    /\ store' = g.store
    /\ metrics' = g.metrics
    /\ oplog' = [oplog EXCEPT ![s] = g.log]
    /\ engine' = [engine EXCEPT ![s] = g.eng]
    /\ lastPush' = [site |-> s,
                    batch |-> {ops[i].oid : i \in 1..Len(ops)},
                    connected |-> g.connected, answered |-> g.answered]

\* what the push phase starts from
PushStart(s) == [store |-> store, metrics |-> metrics, log |-> oplog[s],
                 eng |-> engine[s], connected |-> {}, answered |-> {}]

\* _push_local_changes with the batch ops
PushPhase(s, ops) ==
    IF ops = <<>>
    THEN /\ UNCHANGED <<store, metrics, oplog, engine, faults>>
         /\ lastPush' = NoPush
    ELSE \E out \in [RemoteRegions(s) ->
                       UNION {AllowedPush(s, p, Len(ops)) : p \in RemoteRegions(s)}] :
           /\ \A p \in RemoteRegions(s) : out[p] \in AllowedPush(s, p, Len(ops))
           /\ faults + FailedPushes(s, out) <= MaxFaults
           /\ faults' = faults + FailedPushes(s, out)
           /\ PushDone(s, ops,
                       PushAll(PushStart(s), s, RemoteRegionList(s), ops, out, now))

\* _push_local_changes
PushLocalChanges(s) ==
    /\ Idle /\ s = Turn
    /\ PushPhase(s, PushBatch(oplog[s], s, RemoteRegions(s)))
    /\ pc' = [pc EXCEPT ![s] = "pull"]
    /\ cycles' = cycles + 1
    /\ wrote' = Sites
    /\ resp' = NoResp
    /\ UNCHANGED <<now, logSeq, syncMeta, isolated, writes, usedIds, resolveCall, contacts,
                   gather, daemon,
                   threads, observed>>

\* a query comparison {'$gt': value}: values of different BSON types never
\* compare (a stored date is not greater than a string)
MongoGt(field, value) == IsStr(field) = IsStr(value) /\ field.t > value.t

\* jsonify of a document: a datetime becomes an RFC-822 date string
JsonifyDoc(d) ==
    [d EXCEPT !.ts = IF d.ts.k = "dt" THEN Http(d.ts.t) ELSE d.ts,
              !.lm = IF d.lm.k = "dt" THEN Http(d.lm.t) ELSE d.lm]

\* GET /internal/changes?since= at site `region` (get_changes).  The log is
\* appended in clock order, so its natural order is ascending by timestamp.
\* jsonify raises on an ObjectId inside data (only the entry's own _id is
\* converted), which the handler answers with 500.
GetChanges(log, region, since) ==
    LET found == FilterSeq(log, {e.oid : e \in {x \in ListSet(log) :
                    /\ x.region_origin = region
                    /\ Present(since) => MongoGt(x.timestamp, since)}})
        operations == Limit(found, BatchLimit)
    IN IF \E i \in 1..Len(operations) : operations[i].data.oid = "oid"
       THEN [status |-> 500, operations |-> <<>>]
       ELSE [status |-> 200,
             operations |-> [i \in 1..Len(operations) |->
                 [operations[i] EXCEPT !.data = JsonifyDoc(@),
                                       !.timestamp = Http(@.t)]]]

\* index of the sync_metadata record for a peer, 0 if none
FindMeta(meta, region_url) ==
    IF \E i \in 1..Len(meta) : meta[i].remote_region = region_url
    THEN CHOOSE i \in 1..Len(meta) :
            /\ meta[i].remote_region = region_url
            /\ \A j \in 1..(i - 1) : meta[j].remote_region # region_url
    ELSE 0

\* _get_last_sync_time: the isoformat of the stored time, or None
GetLastSyncTime(meta, region_url) ==
    LET i == FindMeta(meta, region_url)
    IN IF i = 0 THEN NoTime ELSE IsoFormat(meta[i].last_sync_time)

\* _update_last_sync_time
UpdateLastSyncTime(meta, region_url, t) ==
    LET i == FindMeta(meta, region_url)
    IN IF i # 0
       THEN [meta EXCEPT ![i].last_sync_time = Dt(t), ![i].last_updated = Dt(t)]
       ELSE Append(meta, [remote_region |-> region_url, last_sync_time |-> Dt(t),
                          last_updated |-> Dt(t)])

\* _pull_from_region after the request was answered with response
PullAnswered(g, p, t, response) ==
    IF response.status = 200
    THEN IF response.operations # <<>>
         THEN [ApplyOperations(g, response.operations, t)
                  EXCEPT !.meta = UpdateLastSyncTime(@, p, t),
                         !.eng = UpdateRegionStatus(@, p, TRUE, t)]
         ELSE [g EXCEPT !.eng = UpdateRegionStatus(@, p, TRUE, t)]
    ELSE [g EXCEPT !.eng = UpdateRegionStatus(@, p, FALSE, t)]

\* _pull_from_region.  g holds the collections, metrics, sync_metadata and
\* engine of the pulling site s.
PullFromRegion(g, s, p, t) ==
    IF ~Reachable(s, p)
    THEN [g EXCEPT !.eng = UpdateRegionStatus(@, p, FALSE, t)]
    ELSE PullAnswered(g, p, t,
                      GetChanges(oplog[p], p, GetLastSyncTime(g.meta, p)))

RECURSIVE PullAll(_, _, _, _)
PullAll(g, s, peers, t) ==
    IF peers = <<>> THEN g
    ELSE PullAll(PullFromRegion(g, s, Head(peers), t), s, Tail(peers), t)

\* what the pull phase starts from
PullStart(s) == [store |-> store[s], metrics |-> metrics[s],
                 meta |-> syncMeta[s], eng |-> engine[s]]

\* the state a pull phase of site s leaves, g being what PullAll returns
PullDone(s, g) ==
    /\ store' = [store EXCEPT ![s] = g.store]
    /\ metrics' = [metrics EXCEPT ![s] = g.metrics]
    /\ syncMeta' = [syncMeta EXCEPT ![s] = g.meta]
    /\ engine' = [engine EXCEPT ![s] = g.eng]

\* _pull_remote_changes
PullRemoteChanges(s) ==
    /\ pc[s] = "pull"
    /\ PullDone(s, PullAll(PullStart(s), s, RemoteRegionList(s), now))
    /\ pc' = [pc EXCEPT ![s] = "cleanup"]
    /\ resp' = NoResp /\ lastPush' = NoPush
    /\ UNCHANGED <<now, oplog, logSeq, cycles, isolated, faults, writes, usedIds, wrote, resolveCall, contacts,
                   gather, daemon,
                   threads, observed>>

\* a cleanup query that selects nothing
MatchesNothing(e, region, peers, t) == FALSE
\* a cleanup query that looks at the age and the region only
MatchesOldOnly(e, region, peers, t) ==
    e.timestamp.t < t - RetentionTicks /\ e.region_origin = region
\* cleanup_old_operations' query
CleanupMatches(e, region, peers, t) ==
    /\ e.timestamp.t < t - RetentionTicks
    /\ e.region_origin = region
    /\ peers # {} /\ SyncedToAll(e, peers)

\* cleanup_old_operations: delete_many of the matching entries
CleanupOldOperations(log, region, peers, t) ==
    FilterSeq(log, {e.oid : e \in {x \in ListSet(log) :
                                      ~CleanupMatches(x, region, peers, t)}})

\* a cleanup that waits one iteration too long
CleanupLate(counter) == counter > CleanupEvery
\* if self.cleanup_counter >= 60
CleanupDue(counter) == counter >= CleanupEvery

\* the end of a _sync_loop iteration: the counter, the periodic cleanup, and
\* the sleep.  When the store raises inside cleanup_old_operations, the
\* exception is caught there, nothing is deleted and the loop goes on.
CleanupTick(s) ==
    /\ pc[s] = "cleanup"
    /\ IF CleanupDue(engine[s].cleanup_counter + 1)
       THEN /\ \/ /\ oplog' = [oplog EXCEPT ![s] =
                            CleanupOldOperations(@, s, RemoteRegions(s), now)]
                  /\ UNCHANGED faults
               \/ /\ CanFail
                  /\ faults' = faults + 1
                  /\ UNCHANGED oplog
            /\ engine' = [engine EXCEPT ![s].cleanup_counter = 0]
       ELSE /\ engine' = [engine EXCEPT ![s].cleanup_counter = @ + 1]
            /\ UNCHANGED <<oplog, faults>>
    /\ pc' = [pc EXCEPT ![s] = "push"]
    /\ resp' = NoResp /\ lastPush' = NoPush
    /\ UNCHANGED <<now, store, logSeq, syncMeta, metrics, cycles, isolated,
                   writes, usedIds, wrote, resolveCall, contacts,
                   gather, daemon,
                   threads, observed>>

(***************************************************************************)
(* Environment: the clock and the inter-site network.                      *)
(***************************************************************************)
Tick ==
    /\ Idle
    /\ now' = now + 1
    /\ wrote' = {}
    /\ resp' = NoResp /\ lastPush' = NoPush
    /\ UNCHANGED <<store, oplog, logSeq, syncMeta, engine, metrics, pc, cycles,
                   isolated, faults, writes, usedIds, resolveCall, contacts,
                   gather, daemon,
                   threads, observed>>

\* a site loses its inter-site network (one site at a time)
Isolate(s) ==
    /\ Idle /\ CanFail /\ isolated = {}
    /\ isolated' = {s}
    /\ faults' = faults + 1
    /\ resp' = NoResp /\ lastPush' = NoPush
    /\ UNCHANGED <<now, store, oplog, logSeq, syncMeta, engine, metrics, pc, cycles,
                   writes, usedIds, wrote, resolveCall, contacts,
                   gather, daemon,
                   threads, observed>>

Reconnect(s) ==
    /\ Idle /\ s \in isolated
    /\ isolated' = isolated \ {s}
    /\ resp' = NoResp /\ lastPush' = NoPush
    /\ UNCHANGED <<now, store, oplog, logSeq, syncMeta, engine, metrics, pc, cycles,
                   faults, writes, usedIds, wrote, resolveCall, contacts,
                   gather, daemon,
                   threads, observed>>

Init ==
    /\ now = 0
    /\ store = [s \in Sites |-> [c \in Collections |-> <<>>]]
    /\ metrics = [s \in Sites |-> NoMetrics]
    /\ resolveCall = NoCall
    /\ engine = [s \in Sites |-> NewEngine(s)]
    /\ InitRest

Next ==
    \/ \E s \in Writers, o \in WriteOutcomes \cup {"invalid"} : CreatePost(s, o)
    \/ \E s \in Writers, id \in PostIds, o \in WriteOutcomes : UpdatePost(s, id, o)
    \/ \E s \in Writers, id \in PostIds, o \in WriteOutcomes : DeletePost(s, id, o)
    \/ \E s \in Writers, o \in WriteOutcomes \cup {"invalid"} : CreateUser(s, o)
    \/ \E s \in Writers, id \in UserIds, o \in WriteOutcomes : UpdateUser(s, id, o)
    \/ \E s \in Writers, id \in UserIds, o \in WriteOutcomes : MarkSafe(s, id, o)
    \/ \E s \in Sites : cycles < MaxCycles /\ PushLocalChanges(s)
    \/ \E s \in Sites : PullRemoteChanges(s)
    \/ \E s \in Sites : CleanupTick(s)
    \/ now < MaxTime /\ Tick

Spec == Init /\ [][Next]_vars

(***************************************************************************)
(* SpecPush: the backlog of one site.  Clients write at na, na may lose    *)
(* and regain its network, and the clock runs, all before the iteration    *)
(* numbered EventHorizon begins; from then on the sync loops run           *)
(* undisturbed until MaxPushCycles iterations have begun.                  *)
(***************************************************************************)
MaxPushCycles == 7
MaxPushTime == 3
EventHorizon == 2

Disturbed == cycles < EventHorizon

SyncStep ==
    \/ \E s \in Sites :
          /\ cycles < MaxPushCycles
          /\ PushLocalChanges(s)
          /\ Disturbed \/ faults' = faults
    \/ \E s \in Sites : PullRemoteChanges(s)
    \/ \E s \in Sites : CleanupTick(s) /\ (Disturbed \/ faults' = faults)

NextPush ==
    \/ Disturbed /\ CreatePost("na", "ok")
    \/ Disturbed /\ \E id \in PostIds : UpdatePost("na", id, "ok")
    \/ Disturbed /\ now < MaxPushTime /\ Tick
    \/ Disturbed /\ Isolate("na")
    \/ Disturbed /\ Reconnect("na")
    \/ SyncStep

\* SyncStep is enabled exactly when SyncReady holds, and the steps of
\* NextPush that change pc are exactly the SyncStep steps.
SyncReady == (\E s \in Sites : pc[s] # "push") \/ cycles < MaxPushCycles

\* The sync loop of a running daemon never stops iterating: WF_vars(SyncStep),
\* with the enabling condition written out.
FairSync == []<>(~SyncReady) \/ []<><<pc' # pc>>_vars

SpecPush == Init /\ [][NextPush]_vars /\ FairSync


(***************************************************************************)
(* Claims about the write handlers and the push phase, checked under Spec. *)
(***************************************************************************)
Succeeded == resp.status \in {200, 201}

\* C1: a public write handler that answers 200/201 has appended exactly one
\* log entry, with the operation_type, collection and document_id of the
\* mutation, region_origin the local region and an empty synced_to.
C1_LoggedOnce ==
    Succeeded =>
        /\ Len(resp.appended) = 1
        /\ LET e == resp.appended[1]
           IN /\ e.operation_type = resp.operation_type
              /\ e.collection = resp.collection
              /\ e.document_id = resp.document_id
              /\ e.region_origin = resp.site
              /\ e.synced_to = <<>>

\* C9: the synced_to of every log entry holds only configured peers of the
\* entry's site, and none of them more than once.
C9_SyncedToIsPeerSet ==
    \A s \in Sites : \A i \in 1..Len(oplog[s]) :
        LET synced_to == oplog[s][i].synced_to
        IN /\ ListSet(synced_to) \subseteq RemoteRegions(s)
           /\ Cardinality(ListSet(synced_to)) = Len(synced_to)

\* the only write is an insert at na; eu has met it twice (a conflict was
\* recorded there), so it was acknowledged twice, and both peers are listed
C9_Witness ==
    /\ writes = 1 /\ Len(oplog["na"]) = 1
    /\ metrics["eu"].total_conflicts >= 1
    /\ Len(oplog["na"][1].synced_to) = 2

\* C10: after a push of a batch to peer P that was answered with success and
\* by which P was recorded connected, every entry of the batch has P in its
\* synced_to.
C10_AckedWhenConnected ==
    \A p \in lastPush.connected :
        \A i \in 1..Len(oplog[lastPush.site]) :
            oplog[lastPush.site][i].oid \in lastPush.batch
                => InList(oplog[lastPush.site][i].synced_to, p)

\* a push phase of two operations that one peer answered and the other lost
C10_Witness ==
    /\ Cardinality(lastPush.batch) = 2
    /\ Cardinality(lastPush.connected) = 1
    /\ \E i \in 1..Len(oplog[lastPush.site]) :
          /\ oplog[lastPush.site][i].oid \in lastPush.batch
          /\ Len(oplog[lastPush.site][i].synced_to) = 1

(***************************************************************************)
(* Claims about convergence, checked under Spec.  A state is quiescent     *)
(* when every log entry is acknowledged by every peer and one more push or *)
(* pull by any site, with every site reachable, changes no document.       *)
(***************************************************************************)
AllAcked ==
    \A s \in Sites : \A i \in 1..Len(oplog[s]) :
        SyncedToAll(oplog[s][i], RemoteRegions(s))

PushStable(s) ==
    LET ops == PushBatch(oplog[s], s, RemoteRegions(s))
        out == [p \in RemoteRegions(s) |-> PushOutcome("ok", Len(ops))]
    IN ops # <<>> =>
          PushAll(PushStart(s), s, RemoteRegionList(s), ops, out, now).store = store

PullStable(s) ==
    PullAll(PullStart(s), s, RemoteRegionList(s), now).store = store[s]

Quiescent ==
    /\ Idle /\ isolated = {}
    /\ AllAcked
    /\ \A s \in Sites : PushStable(s) /\ PullStable(s)

\* the document with this id at a site, NoDoc if it has none
DocAt(s, c, id) ==
    LET i == FindOne(store[s][c], id)
    IN IF i = 0 THEN NoDoc ELSE store[s][c][i]

\* what a reader sees of a document: its content and the instants of its
\* timestamps (not their representation, nor the store's own _id)
Value(d) == [id |-> d.id, msg |-> d.msg, ts |-> Instant(d.ts), lm |-> Instant(d.lm)]

DocIds(c) == IF c = "posts" THEN PostIds ELSE UserIds

\* C2: once the system is quiescent (no fault having been injected), all
\* sites hold the same value for every document id.
C2_Converged ==
    (Quiescent /\ faults = 0) =>
        \A c \in Collections : \A id \in DocIds(c) : \A s1, s2 \in Sites :
            Value(DocAt(s1, c, id)) = Value(DocAt(s2, c, id))

\* C6: once the system is quiescent, two sites that hold versions of a
\* document with equal timestamps hold the same version (a tie is broken
\* the same way everywhere).
C6_TieSameEverywhere ==
    (Quiescent /\ faults = 0) =>
        \A id \in PostIds : \A s1, s2 \in Sites :
            LET d1 == DocAt(s1, "posts", id)
                d2 == DocAt(s2, "posts", id)
            IN (/\ d1 # NoDoc /\ d2 # NoDoc
                /\ Present(TimeOf(d1)) /\ Present(TimeOf(d2))
                /\ Instant(TimeOf(d1)) = Instant(TimeOf(d2)))
               => d1.msg = d2.msg

\* the logged user updates of a site
UserUpdates(s) ==
    {e \in ListSet(oplog[s]) : e.operation_type = "update" /\ e.collection = "users"}

\* C8: when a user was updated at site A and later at site B, then once the
\* system is quiescent every site returns B's update.
C8_LaterUserUpdateWins ==
    (Quiescent /\ faults = 0) =>
        \A a, b \in Sites : \A ea \in UserUpdates(a) : \A eb \in UserUpdates(b) :
            (/\ a # b /\ ea.document_id = eb.document_id
             /\ eb.timestamp.t > ea.timestamp.t)
            => \A s \in Sites : DocAt(s, "users", eb.document_id).msg = eb.data.msg


(***************************************************************************)
(* Claims about the backlog, checked under SpecPush.                       *)
(***************************************************************************)
\* C3: once a site's peers are reachable and stay so, every entry of its
\* operation log, whether written while the site was isolated or not and
\* also when more than a batch is queued, eventually has every configured
\* peer in its synced_to.
C3_EventuallyPushed ==
    (~Disturbed /\ isolated = {}) ~> AllAcked

\* na logged three operations (one more than a batch) and lost its network
\* for a while; the first ones were pushed, acknowledged and collected,
\* and the last one is acknowledged by both peers
C3_Witness ==
    /\ ~Disturbed /\ isolated = {} /\ faults = 1
    /\ logSeq["na"] = 3 /\ Len(oplog["na"]) < 3
    /\ \E i \in 1..Len(oplog["na"]) :
          oplog["na"][i].oid = 3 /\ SyncedToAll(oplog["na"][i], RemoteRegions("na"))
    /\ AllAcked



(***************************************************************************)
(* Claims about the push phase and its acknowledgements, checked under     *)
(* SpecPush (where a site may be cut off and a push may fail).             *)
(***************************************************************************)
\* the step is a push phase of site s that pushed a batch
PushedBy(s) == pc[s] = "push" /\ pc'[s] = "pull" /\ lastPush'.batch # {}

\* the entry of a log with this _id has the peer in its synced_to
AckedIn(log, oid, p) ==
    \E i \in 1..Len(log) : log[i].oid = oid /\ InList(log[i].synced_to, p)

C11Step ==
    \A s \in Sites : \A p \in RemoteRegions(s) :
        /\ (PushedBy(s) /\ p \notin lastPush'.answered) =>
              /\ \A i \in 1..Len(oplog'[s]) :
                    AckedIn(oplog'[s], oplog'[s][i].oid, p)
                        => AckedIn(oplog[s], oplog'[s][i].oid, p)
              /\ engine'[s].region_status[p].known
              /\ ~engine'[s].region_status[p].connected
              /\ engine'[s].region_status[p].consecutive_failures
                    = engine[s].region_status[p].consecutive_failures + 1
        /\ \A i \in 1..Len(oplog'[s]) :
              (/\ AckedIn(oplog'[s], oplog'[s][i].oid, p)
               /\ ~AckedIn(oplog[s], oplog'[s][i].oid, p))
                  => /\ PushedBy(s)
                     /\ p \in lastPush'.answered
                     /\ oplog'[s][i].oid \in lastPush'.batch

\* C11: when the push request to peer P raises, times out or is not answered
\* with 200, no entry gets P added to its synced_to and P's failure is
\* recorded (connected false, consecutive_failures one more); P is added to
\* an entry's synced_to only by a push of a batch holding that entry which P
\* answered with 200.
C11_FailedPushLeavesNoAck == [][C11Step]_vars

\* a push to a peer has just failed for at least the second time in a row,
\* and an entry of the batch is still without that peer
C11_Witness ==
    /\ lastPush.batch # {}
    /\ \E p \in RemoteRegions(lastPush.site) \ lastPush.answered :
          /\ engine[lastPush.site].region_status[p].consecutive_failures >= 2
          /\ \E i \in 1..Len(oplog[lastPush.site]) :
                /\ oplog[lastPush.site][i].oid \in lastPush.batch
                /\ ~InList(oplog[lastPush.site][i].synced_to, p)


(***************************************************************************)
(* Claims about idempotence, checked under Spec on what a push or an apply *)
(* would do in each reachable state between iterations.                    *)
(***************************************************************************)
\* the batch site s would push now, and the answer "ok" for it
BatchOf(s) == PushBatch(oplog[s], s, RemoteRegions(s))
AllOk(s) == PushOutcome("ok", Len(BatchOf(s)))

\* one push of the batch of s to p, and the same push once more
PushedOnce(s, p) == PushToRegion(PushStart(s), s, p, BatchOf(s), AllOk(s), now)
PushedTwice(s, p) == PushToRegion(PushedOnce(s, p), s, p, BatchOf(s), AllOk(s), now)

\* C12: pushing the same batch to the same peer twice leaves every entry's
\* synced_to and the receiver's document store as they were after the first
\* push (stated for the states no fault has led to).
C12_PushTwiceSame ==
    (Idle /\ faults = 0) => \A s \in Sites : \A p \in RemoteRegions(s) :
        BatchOf(s) # <<>> =>
            /\ PushedTwice(s, p).log = PushedOnce(s, p).log
            /\ PushedTwice(s, p).store[p] = PushedOnce(s, p).store[p]


\* the collections and metrics of a site, as an apply finds them
SiteNow(s) == [store |-> store[s], metrics |-> metrics[s]]

\* the insert entries of a site's log, as they go over the wire
InsertOps(o) ==
    {SerializeOp(oplog[o][i]) : i \in {j \in 1..Len(oplog[o]) :
                                          oplog[o][j].operation_type = "insert"}}

AppliedOnce(s, op) == ApplyOne(SiteNow(s), op, now)
AppliedTwice(s, op) == ApplyOne(AppliedOnce(s, op), op, now)

\* the documents of a collection that carry this id
WithId(docs, id) == {j \in 1..Len(docs) : docs[j].id = id}

\* C13: applying the same insert twice in sequence at a site leaves exactly
\* one document with that id, the collections are as after the first apply,
\* and the second apply went through the conflict resolver (one more
\* conflict is counted).
C13_InsertTwiceSame ==
    Idle => \A s \in Sites : \A o \in Sites \ {s} : \A op \in InsertOps(o) :
        /\ Cardinality(WithId(AppliedTwice(s, op).store[op.collection],
                              op.document_id)) = 1
        /\ AppliedTwice(s, op).store = AppliedOnce(s, op).store
        /\ AppliedTwice(s, op).metrics.total_conflicts
              = AppliedOnce(s, op).metrics.total_conflicts + 1

\* a peer's insert of a document the site does not hold yet: the first apply
\* inserts it, the second meets it
C13_Witness ==
    /\ Idle
    /\ \E op \in InsertOps("na") :
          /\ WithId(store["eu"][op.collection], op.document_id) = {}
          /\ WithId(AppliedTwice("eu", op).store[op.collection], op.document_id) # {}
          /\ AppliedTwice("eu", op).metrics.total_conflicts = 1


(***************************************************************************)
(* Claims about the selection of the batch, checked under Spec.            *)
(***************************************************************************)
\* the entries of the log of s, before the step, that the step pushed
PushedEntries(s) ==
    {i \in 1..Len(oplog[s]) : oplog[s][i].oid \in lastPush'.batch}

C14Step ==
    \A s \in Sites : PushedBy(s) =>
        /\ Cardinality(lastPush'.batch) <= BatchLimit
        /\ \A i \in PushedEntries(s) :
              /\ oplog[s][i].region_origin = s
              /\ ~SyncedToAll(oplog[s][i], RemoteRegions(s))

\* C14: a pushed batch holds at most the batch limit of entries, all of them
\* of the local region and each lacking at least one configured peer in its
\* synced_to: an entry every peer has acknowledged is not pushed again.
C14_BatchOnlyUnsynced == [][C14Step]_vars


DeletedEntries(s) ==
    {i \in 1..Len(oplog[s]) :
        \A j \in 1..Len(oplog'[s]) : oplog'[s][j].oid # oplog[s][i].oid}

C16Step ==
    \A s \in Sites : \A i \in DeletedEntries(s) :
        /\ pc[s] = "cleanup"
        /\ oplog[s][i].region_origin = s
        /\ SyncedToAll(oplog[s][i], RemoteRegions(s))
        /\ oplog[s][i].timestamp.t < now - RetentionTicks

\* C16: an operation-log entry is deleted only by the cleanup of its own
\* site, and only if it is of the local region, every configured peer is in
\* its synced_to and it is older than the retention window.
C16_DeletesOnlyAckedOld == [][C16Step]_vars

\* the cleanup has deleted an entry of na and kept another, which is older
\* than the retention window and which no peer has acknowledged
C16_Witness ==
    /\ Len(oplog["na"]) < logSeq["na"]
    /\ \E i \in 1..Len(oplog["na"]) :
          /\ oplog["na"][i].synced_to = <<>>
          /\ oplog["na"][i].timestamp.t < now - RetentionTicks
    /\ engine["na"].cleanup_counter = 0 /\ pc["na"] = "push"


(***************************************************************************)
(* Claims about the schedule of the cleanup, checked under Spec.           *)
(***************************************************************************)
\* the number of iterations the sync loop of s has begun
Iterations(s) ==
    Cardinality({k \in 0..(cycles - 1) : SiteOrder[(k % Len(SiteOrder)) + 1] = s})

\* the step ends an iteration of the sync loop of s
EndsIteration(s) == pc[s] = "cleanup" /\ pc'[s] # pc[s]

C17Step ==
    \A s \in Sites : EndsIteration(s) =>
        /\ pc'[s] = "push"
        /\ engine'[s].cleanup_counter = Iterations(s) % CleanupEvery
        /\ IF Iterations(s) % CleanupEvery = 0
           THEN \/ oplog'[s] = CleanupOldOperations(oplog[s], s, RemoteRegions(s), now)
                \/ oplog'[s] = oplog[s] /\ faults' = faults + 1
           ELSE oplog'[s] = oplog[s]

\* C17: the cleanup runs at the end of every CleanupEvery-th iteration of a
\* site's sync loop and of no other, whatever the push and pull phases of
\* the iteration met; when the cleanup itself fails nothing is deleted, and
\* in every case the loop goes on to its next iteration.
C17_CleanupEveryNth == [][C17Step]_vars

\* na's second iteration has ended with a cleanup that deleted an entry,
\* after a fault earlier on
C17_Witness ==
    /\ Idle /\ Iterations("na") = CleanupEvery
    /\ engine["na"].cleanup_counter = 0
    /\ Len(oplog["na"]) < logSeq["na"]
    /\ faults = 1


(***************************************************************************)
(* SpecIsland: the liveness tracker of one site (na) under every sequence  *)
(* of peer-contact outcomes.  REMOTE_REGIONS is a list of zero to three    *)
(* peers.  An iteration of the sync loop contacts every peer in list order *)
(* in its push phase (no peer at all when there is nothing to push), then  *)
(* every peer in its pull phase; each contact ends in one call of          *)
(* _update_region_status.  The clock may advance between any two contacts  *)
(* (a request that fails may take seconds to do so).                       *)
(***************************************************************************)
MaxIslandTime == 3
MaxIslandCycles == 2

IslandPeerList == <<"eu", "ap", "sa">>

\* the configured peers of an engine, in list order
PeerOrder(e) == SubSeq(IslandPeerList, 1, Cardinality(DOMAIN e.region_status))

\* get_island_mode_status at wall-clock time t
GetIslandModeStatus(e, t) ==
    [is_island |-> e.island_mode_active,
     is_suspect |-> /\ ConnectedRegions(e) = 0
                    /\ Cardinality(DOMAIN e.region_status) > 0
                    /\ Present(e.island_mode_start_time)
                    /\ ~e.island_mode_active,
     isolation_start |-> IsoFormat(e.island_mode_start_time),
     connected_regions |-> ConnectedRegions(e),
     total_regions |-> Cardinality(DOMAIN e.region_status)]

InitIsland ==
    /\ now = 0
    /\ store = [s \in Sites |-> [c \in Collections |-> <<>>]]
    /\ metrics = [s \in Sites |-> NoMetrics]
    /\ resolveCall = NoCall
    /\ \E n \in 0..Len(IslandPeerList) :
          engine = [s \in Sites |->
                      IF s = "na"
                      THEN [NewEngine(s) EXCEPT !.region_status =
                              [p \in {IslandPeerList[i] : i \in 1..n} |-> NoStatus]]
                      ELSE NewEngine(s)]
    /\ InitRest

\* the contacts of the iteration in progress: when a push phase begins, the
\* contacts on record are those of the iteration before
ContactsSoFar ==
    IF pc["na"] = "push" /\ \E i \in 1..Len(contacts) : contacts[i].phase = "pull"
    THEN <<>>
    ELSE contacts

\* how many contacts of this phase the iteration has made
ContactsIn(phase) ==
    Cardinality({i \in 1..Len(ContactsSoFar) : ContactsSoFar[i].phase = phase})

\* a loop body whose phases do not catch their own failures: the failure
\* reaches the except clause of _sync_loop and the iteration ends
AbortOnFailure(phase, ok) ==
    IF ~ok THEN "push" ELSE IF phase = "push" THEN "pull" ELSE "cleanup"

\* the phase that follows when `phase` has made its last contact, whether
\* that contact succeeded or not: _push_local_changes and
\* _pull_remote_changes catch every exception of every contact
AfterPhase(phase, ok) == IF phase = "push" THEN "pull" ELSE "cleanup"

\* one _push_to_region or _pull_from_region of na, as far as the tracker is
\* concerned: the next peer of the phase is contacted and the outcome recorded
IslandContact(phase, ok) ==
    /\ pc["na"] = phase
    /\ phase = "push" => cycles < MaxIslandCycles
    /\ ContactsIn(phase) < Len(PeerOrder(engine["na"]))
    /\ LET p == PeerOrder(engine["na"])[ContactsIn(phase) + 1]
           last == ContactsIn(phase) + 1 = Len(PeerOrder(engine["na"]))
       IN /\ engine' = [engine EXCEPT !["na"] = UpdateRegionStatus(@, p, ok, now)]
          /\ contacts' = Append(ContactsSoFar, [phase |-> phase, peer |-> p, ok |-> ok])
          /\ pc' = IF last THEN [pc EXCEPT !["na"] = AfterPhase(phase, ok)] ELSE pc
          /\ cycles' = IF last /\ phase = "push" THEN cycles + 1 ELSE cycles
    /\ UNCHANGED <<now, store, oplog, logSeq, syncMeta, metrics, isolated, faults,
                   writes, usedIds, wrote, resp, lastPush, resolveCall,
                   gather, daemon,
                   threads, observed>>

\* a phase that contacts nobody: nothing to push, or no peer configured
IslandSkip(phase) ==
    /\ pc["na"] = phase
    /\ phase = "push" => cycles < MaxIslandCycles
    /\ ContactsIn(phase) = 0
    /\ phase = "pull" => PeerOrder(engine["na"]) = <<>>
    /\ contacts' = ContactsSoFar
    /\ pc' = [pc EXCEPT !["na"] = AfterPhase(phase, TRUE)]
    /\ cycles' = IF phase = "push" THEN cycles + 1 ELSE cycles
    /\ UNCHANGED <<now, store, oplog, logSeq, syncMeta, engine, metrics, isolated,
                   faults, writes, usedIds, wrote, resp, lastPush, resolveCall,
                   gather, daemon,
                   threads, observed>>

IslandTick ==
    /\ now < MaxIslandTime
    /\ now' = now + 1
    /\ UNCHANGED <<store, oplog, logSeq, syncMeta, engine, metrics, pc, cycles,
                   isolated, faults, writes, usedIds, wrote, resp, lastPush,
                   resolveCall, contacts,
                   gather, daemon,
                   threads, observed>>

NextIsland ==
    \/ \E phase \in {"push", "pull"}, ok \in BOOLEAN : IslandContact(phase, ok)
    \/ \E phase \in {"push", "pull"} : IslandSkip(phase)
    \/ CleanupTick("na")
    \/ IslandTick

SpecIsland == InitIsland /\ [][NextIsland]_vars

(***************************************************************************)
(* Claims about island mode, checked under SpecIsland.                     *)
(***************************************************************************)
\* an iteration of the sync loop has ended and the next has not begun
BetweenIterations ==
    pc["na"] = "push" /\ \E i \in 1..Len(contacts) : contacts[i].phase = "pull"

\* C18: if a push or a pull to some peer succeeded during an iteration,
\* get_island_mode_status called after it and before the next one returns
\* is_island = false and isolation_start = null.
C18_SuccessClearsIsland ==
    (BetweenIterations /\ \E i \in 1..Len(contacts) : contacts[i].ok) =>
        /\ ~GetIslandModeStatus(engine["na"], now).is_island
        /\ ~Present(GetIslandModeStatus(engine["na"], now).isolation_start)


\* C19: in every state in which is_island is true, every configured peer
\* has a liveness record with consecutive_failures >= 1.
C19_IslandAllFailed ==
    GetIslandModeStatus(engine["na"], now).is_island =>
        \A p \in DOMAIN engine["na"].region_status :
            /\ engine["na"].region_status[p].known
            /\ engine["na"].region_status[p].consecutive_failures >= 1


\* no peer's latest attempt succeeded
NoPeerConnected(e) == ConnectedRegions(e) = 0

C20Step ==
    LET e == engine["na"]
        e2 == engine'["na"]
    IN /\ (~e.island_mode_active /\ e2.island_mode_active) =>
             /\ NoPeerConnected(e2)
             /\ Present(e.island_mode_start_time)
             /\ now - e.island_mode_start_time.t >= IslandModeThreshold
       /\ (Present(e.island_mode_start_time) /\ Present(e2.island_mode_start_time)) =>
             e2.island_mode_start_time = e.island_mode_start_time
       /\ (~Present(e.island_mode_start_time) /\ Present(e2.island_mode_start_time)) =>
             /\ NoPeerConnected(e2)
             /\ e2.island_mode_start_time = Dt(now)
       /\ (e2 # e /\ NoPeerConnected(e2) /\ e2.region_status # e.region_status) =>
             Present(e2.island_mode_start_time)

\* C20: is_island becomes true only in a step after which no peer's latest
\* attempt succeeded and when at least the threshold has elapsed since
\* isolation_start; isolation_start is set at the first attempt after which
\* no peer is connected, to the time of that attempt, and later failures
\* leave it where it is.
C20_IslandOnlyAfterThreshold == [][C20Step]_vars

\* island mode is active, isolation began at instant 0 and a peer has failed
\* again since
C20_Witness ==
    /\ engine["na"].island_mode_active
    /\ engine["na"].island_mode_start_time = Dt(0)
    /\ now >= IslandModeThreshold
    /\ \E p \in DOMAIN engine["na"].region_status :
          engine["na"].region_status[p].consecutive_failures >= 2


\* C21: whenever is_suspect is reported, the latest attempt on every peer
\* that has been tried has failed and now - isolation_start is below the
\* threshold; once the threshold has elapsed with every peer failing, the
\* report is is_island = true and is_suspect = false.
C21_SuspectBelowThreshold ==
    LET e == engine["na"]
        st == GetIslandModeStatus(e, now)
    IN /\ st.is_suspect =>
             /\ NoPeerConnected(e)
             /\ Present(e.island_mode_start_time)
             /\ now - e.island_mode_start_time.t < IslandModeThreshold
       /\ ( /\ st.total_regions > 0
            /\ NoPeerConnected(e)
            /\ Present(e.island_mode_start_time)
            /\ now - e.island_mode_start_time.t >= IslandModeThreshold ) =>
             (st.is_island /\ ~st.is_suspect)

(***************************************************************************)
(* GET /status (routes/health.py): the island_mode block of the answer.    *)
(***************************************************************************)
DetailedStatus(e, t) ==
    LET island_status == GetIslandModeStatus(e, t)
    IN [active |-> island_status.is_island,
        isolation_start |-> island_status.isolation_start,
        connected_regions |-> island_status.connected_regions,
        total_regions |-> island_status.total_regions,
        status |-> IF island_status.is_island THEN "ISLAND MODE" ELSE "connected"]

\* C22: island_mode.status of GET /status is "SUSPECT" in the suspect phase,
\* "ISLAND MODE" while is_island is true and "connected" otherwise.
C22_StatusNamesPhase ==
    LET st == GetIslandModeStatus(engine["na"], now)
    IN DetailedStatus(engine["na"], now).status =
          IF st.is_island THEN "ISLAND MODE"
          ELSE IF st.is_suspect THEN "SUSPECT"
          ELSE "connected"


(***************************************************************************)
(* SpecWrites: the public write handlers of site na while its liveness     *)
(* tracker goes through every phase: the steps of SpecIsland, and clients  *)
(* writing at na between iterations of its sync loop.                      *)
(***************************************************************************)
MaxIslandWrites == 2

\* na is configured with one or two peers
InitWrites == InitIsland /\ Cardinality(DOMAIN engine["na"].region_status) \in {1, 2}

MayWrite == writes < MaxIslandWrites

NextWrites ==
    \/ \E phase \in {"push", "pull"}, ok \in BOOLEAN : IslandContact(phase, ok)
    \/ \E phase \in {"push", "pull"} : IslandSkip(phase)
    \/ CleanupTick("na")
    \/ now < MaxIslandTime /\ Tick
    \/ MayWrite /\ \E body \in PostBodies : CreatePostWith("na", body, "ok")
    \/ MayWrite /\ \E id \in PostIds : UpdatePost("na", id, "ok")
    \/ MayWrite /\ \E id \in PostIds : DeletePost("na", id, "ok")
    \/ MayWrite /\ \E o \in {"ok", "invalid"} : CreateUser("na", o)
    \/ MayWrite /\ \E id \in UserIds : UpdateUser("na", id, "ok")

SpecWrites == InitWrites /\ [][NextWrites]_vars

(***************************************************************************)
(* Claims about the write handlers and island mode, checked under          *)
(* SpecWrites.                                                             *)
(***************************************************************************)
\* the island-mode phase of site s as get_island_mode_status reports it
PhaseOf(s) ==
    LET st == GetIslandModeStatus(engine[s], now)
    IN IF st.is_island THEN "ISLAND" ELSE IF st.is_suspect THEN "SUSPECT" ELSE "CONNECTED"

\* the handler has written the store of s and appended one log entry
Written(s, handler, status, c) ==
    /\ resp'.site = s /\ resp'.handler = handler /\ resp'.status = status
    /\ store'[s][c] # store[s][c]
    /\ Len(oplog'[s]) = Len(oplog[s]) + 1
    /\ oplog'[s][Len(oplog'[s])].collection = c

\* a client can reach the handlers of s now, with a fresh instant to stamp
ClientCanWrite(s) == Idle /\ MayWrite /\ s \notin wrote

\* C23: whatever the island-mode phase of the site, each public write
\* handler, given a valid request, performs its store write, appends its
\* log entry and answers its success status.
C23_WritesNotGated ==
    \A s \in {"na"} :
        ClientCanWrite(s) =>
            /\ PostIds \ usedIds # {} =>
                  ENABLED (CreatePost(s, "ok") /\ Written(s, "create_post", 201, "posts"))
            /\ \A id \in PostIds :
                  FindOne(store[s]["posts"], id) # 0 =>
                      /\ ENABLED (UpdatePost(s, id, "ok") /\ resp'.status = 200
                                    /\ Len(oplog'[s]) = Len(oplog[s]) + 1)
                      /\ ENABLED (DeletePost(s, id, "ok")
                                    /\ Written(s, "delete_post", 200, "posts"))
            /\ (UserIds \ usedIds # {} /\ store[s]["users"] = <<>>) =>
                  ENABLED (CreateUser(s, "ok") /\ Written(s, "create_user", 201, "users"))
            /\ \A id \in UserIds :
                  FindOne(store[s]["users"], id) # 0 =>
                      ENABLED (UpdateUser(s, id, "ok") /\ resp'.status = 200
                                 /\ Len(oplog'[s]) = Len(oplog[s]) + 1)

\* a post was created, stored and logged at a site in island mode
C23_Witness ==
    /\ resp.handler = "create_post" /\ resp.status = 201
    /\ PhaseOf(resp.site) = "ISLAND"
    /\ Len(resp.appended) = 1


(***************************************************************************)
(* SpecScatter: one QueryRouter.scatter_gather call of site na             *)
(* (services/query_router.py).  The router is configured with 0 to 3       *)
(* peers; every peer's _query_region future completes with some answer, in *)
(* any order, or is still running when as_completed reaches its timeout.   *)
(***************************************************************************)
\* What _query_region returns.  "error" is None: the request raised, timed
\* out or was answered with a status other than 200.  The others are the
\* parsed JSON body of a 200 answer.
Bodies == {"posts_object", "posts_object_empty", "list", "empty_list",
           "other_object", "empty_object", "scalar", "null"}
Answers == Bodies \cup {"error"}

\* Python's truth value of the returned object (if result:)
Truthy(answer) == answer \in {"posts_object", "posts_object_empty", "list",
                              "other_object", "scalar"}
\* isinstance(result, dict), isinstance(result, list)
IsDict(answer) == answer \in {"posts_object", "posts_object_empty", "other_object",
                              "empty_object"}
IsList(answer) == answer \in {"list", "empty_list"}
\* the items of a list body (the lists of the model hold one item or none)
ItemsOf(answer, region_url) ==
    IF answer = "list" THEN <<[from |-> region_url, what |-> "item"]>> ELSE <<>>

\* len(successful_regions) / len(self.remote_regions) if self.remote_regions else 0
SuccessRate(successful_regions, remote_regions) ==
    IF Len(remote_regions) = 0
    THEN [num |-> 0, den |-> 1]
    ELSE [num |-> Len(successful_regions), den |-> Len(remote_regions)]

\* the call begins: the executor is created and one future per peer is
\* submitted.  ThreadPoolExecutor(max_workers=0) raises ValueError.
ScatterStart(n, min_responses) ==
    /\ gather.state = "idle"
    /\ LET peers == SubSeq(IslandPeerList, 1, n)
       IN gather' = IF n = 0
                    THEN [gather EXCEPT !.state = "raised", !.min_responses = min_responses]
                    ELSE [gather EXCEPT !.state = "running", !.peers = peers,
                                        !.min_responses = min_responses,
                                        !.pending = 1..n,
                                        !.answer = [i \in 1..n |-> "none"]]
    /\ UNCHANGED <<now, store, oplog, logSeq, syncMeta, engine, metrics, pc, cycles,
                   isolated, faults, writes, usedIds, wrote, resp, lastPush,
                   resolveCall, contacts, daemon,
                   threads, observed>>

\* as_completed yields the future of peer i, whose result is answer
ScatterCompleted(i, answer) ==
    /\ gather.state = "running"
    /\ i \in gather.pending
    /\ LET region_url == gather.peers[i]
           g == [gather EXCEPT !.pending = @ \ {i}, !.answer[i] = answer]
       IN gather' =
            IF Truthy(answer)
            THEN [g EXCEPT !.successful_regions = Append(@, region_url),
                           !.all_results =
                               IF IsDict(answer)
                               THEN Append(@, [from |-> region_url, what |-> answer])
                               ELSE IF IsList(answer)
                               THEN @ \o ItemsOf(answer, region_url)
                               ELSE @]
            ELSE [g EXCEPT !.failed_regions = Append(@, region_url)]
    /\ UNCHANGED <<now, store, oplog, logSeq, syncMeta, engine, metrics, pc, cycles,
                   isolated, faults, writes, usedIds, wrote, resp, lastPush,
                   resolveCall, contacts, daemon,
                   threads, observed>>

\* 2 x timeout have passed with a future still running (requests bounds the
\* connect and each read, not the whole request): as_completed raises
\* TimeoutError, which scatter_gather does not catch
ScatterCeiling ==
    /\ gather.state = "running"
    /\ gather.pending # {}
    /\ gather' = [gather EXCEPT !.state = "raised"]
    /\ UNCHANGED <<now, store, oplog, logSeq, syncMeta, engine, metrics, pc, cycles,
                   isolated, faults, writes, usedIds, wrote, resp, lastPush,
                   resolveCall, contacts, daemon,
                   threads, observed>>

\* every future has been handled: the metadata is computed and the call
\* returns {results, metadata}
ScatterReturn ==
    /\ gather.state = "running"
    /\ gather.pending = {}
    /\ gather' = [gather EXCEPT
                    !.state = "returned",
                    !.total_regions_queried = Len(gather.peers),
                    !.success_rate = SuccessRate(gather.successful_regions, gather.peers)]
    /\ UNCHANGED <<now, store, oplog, logSeq, syncMeta, engine, metrics, pc, cycles,
                   isolated, faults, writes, usedIds, wrote, resp, lastPush,
                   resolveCall, contacts, daemon,
                   threads, observed>>

\* GET /api/posts?global=true has called scatter_gather inside its try
\* block: it answers 200 with the merged posts, or 500 when the call raised
GetPostsGlobal ==
    /\ gather.state \in {"returned", "raised"}
    /\ resp = NoResp
    /\ resp' = [NoResp EXCEPT !.handler = "get_posts",
                              !.status = IF gather.state = "returned" THEN 200 ELSE 500]
    /\ UNCHANGED <<now, store, oplog, logSeq, syncMeta, engine, metrics, pc, cycles,
                   isolated, faults, writes, usedIds, wrote, lastPush,
                   resolveCall, contacts, gather, daemon,
                   threads, observed>>

NextScatter ==
    \/ \E n \in 0..Len(IslandPeerList), min_responses \in {0, 1} :
          ScatterStart(n, min_responses)
    \/ \E i \in 1..Len(IslandPeerList), answer \in Answers : ScatterCompleted(i, answer)
    \/ ScatterCeiling
    \/ ScatterReturn
    \/ GetPostsGlobal

SpecScatter == Init /\ [][NextScatter]_vars

(***************************************************************************)
(* Claims about scatter_gather, checked under SpecScatter.                 *)
(***************************************************************************)
SeqSet(seq) == {seq[i] : i \in 1..Len(seq)}
\* the call has ended, by returning or by raising
ScatterEnded == gather.state \in {"returned", "raised"}

\* C24: for every scatter_gather call (here: with at least one peer
\* configured), successful_regions and failed_regions are disjoint, their
\* union is the configured peer set (a peer still running at the aggregate
\* ceiling counting as failed), and success_rate is
\* |successful_regions| / |peers|.
C24_RegionsPartitionPeers ==
    (ScatterEnded /\ gather.peers # <<>>) =>
        /\ gather.state = "returned"
        /\ SeqSet(gather.successful_regions) \cap SeqSet(gather.failed_regions) = {}
        /\ SeqSet(gather.successful_regions) \cup SeqSet(gather.failed_regions)
              = SeqSet(gather.peers)
        /\ gather.success_rate = [num |-> Len(gather.successful_regions),
                                  den |-> Len(gather.peers)]

\* C25: scatter_gather always returns {results, metadata} and never raises:
\* also with fewer than min_responses answers, with a request still running
\* at the ceiling, and with no peers configured (success_rate 0).
C25_AlwaysReturns ==
    ScatterEnded =>
        /\ gather.state = "returned"
        /\ gather.peers = <<>> => gather.success_rate.num = 0

\* C26: a peer whose 200 body is neither an object with a posts array nor a
\* list is in failed_regions and contributes nothing to the results; a peer
\* whose body is a list or a posts object, empty list included, is in
\* successful_regions.
C26_BodyShapeDecides ==
    gather.state = "returned" =>
        \A i \in 1..Len(gather.peers) :
            LET region_url == gather.peers[i]
                answer == gather.answer[i]
            IN IF answer \in {"posts_object", "posts_object_empty", "list", "empty_list"}
               THEN region_url \in SeqSet(gather.successful_regions)
               ELSE answer \in Bodies =>
                      /\ region_url \in SeqSet(gather.failed_regions)
                      /\ \A k \in 1..Len(gather.all_results) :
                            gather.all_results[k].from # region_url


(***************************************************************************)
(* Claims about the pull phase and the sync metadata, checked under Spec.  *)
(***************************************************************************)
\* the sync_metadata records of site s for peer p, after the step
MetaRecords(s, p) ==
    {i \in 1..Len(syncMeta'[s]) : syncMeta'[s][i].remote_region = p}

\* the pull of s from p in this step is answered with 200
PullAnswered200(s, p) ==
    /\ Reachable(s, p)
    /\ GetChanges(oplog[p], p, GetLastSyncTime(syncMeta[s], p)).status = 200

C27Step ==
    \A s \in Sites :
        (pc[s] = "pull" /\ pc'[s] = "cleanup") =>
            \A p \in RemoteRegions(s) :
                /\ Cardinality(MetaRecords(s, p)) <= 1
                /\ PullAnswered200(s, p) =>
                      \E i \in MetaRecords(s, p) : syncMeta'[s][i].last_sync_time = Dt(now)

\* C27: after every pull from peer P answered with 200, a pull of zero
\* operations included, the sync-metadata record for (local, P) exists with
\* last_sync_time the local time of that pull, and no pair ever has more
\* than one record.
C27_MetaAfterEveryPull == [][C27Step]_vars


(***************************************************************************)
(* Claims about POST /internal/sync, checked under Spec.                   *)
(***************************************************************************)
\* the batch of s as it goes over the wire
WireBatch(s) == [i \in 1..Len(BatchOf(s)) |-> SerializeOp(BatchOf(s)[i])]

\* applying this entry at site p leaves p's collections as they are
NotApplied(p, op) == ApplyOne(SiteNow(p), op, now).store = store[p]

\* C28: POST /internal/sync answers 200 for every batch it hands to
\* _apply_operations, whether or not each entry was applied, and it answers
\* 400, applying nothing, when the batch is empty.
C28_AcceptedBatch200 ==
    Idle => \A s \in Sites : \A p \in RemoteRegions(s) :
        /\ WireBatch(s) # <<>> => ReceiveSync(SiteNow(p), WireBatch(s), now).status = 200
        /\ ReceiveSync(SiteNow(p), <<>>, now) = [status |-> 400, site |-> SiteNow(p)]

\* a batch none of whose entries changes the receiver is answered with 200
C28_Witness ==
    /\ Idle
    /\ \E s \in Sites : \E p \in RemoteRegions(s) :
          /\ WireBatch(s) # <<>>
          /\ \A i \in 1..Len(WireBatch(s)) : NotApplied(p, WireBatch(s)[i])
          /\ ReceiveSync(SiteNow(p), WireBatch(s), now).site.store = store[p]
          /\ ReceiveSync(SiteNow(p), WireBatch(s), now).status = 200


(***************************************************************************)
(* Claims about validation in POST /api/posts, checked under SpecWrites.   *)
(***************************************************************************)
\* the body fails validation: a required field is missing or empty, the
\* post_type is outside the closed set, or the location is not a point
FailsValidation(body) ==
    \/ body.user_id = Absent
    \/ body.post_type \notin ValidTypes
    \/ body.message \in {Absent, ""}
    \/ body.region = ""
    \/ body.location = "not_point"

C29Step ==
    (resp'.handler = "create_post" /\ FailsValidation(resp'.body)) =>
        /\ resp'.status = 400
        /\ store' = store
        /\ oplog' = oplog

MaxDaemonCalls == 4
MaxDaemonIterations == 4

DaemonRest ==
    UNCHANGED <<now, store, oplog, logSeq, syncMeta, engine, metrics, pc, cycles,
                isolated, faults, writes, usedIds, wrote, resp, lastPush,
                resolveCall, contacts, gather,
                   threads, observed>>

NoCallInProgress == daemon.joining = 0

\* start_sync_daemon
StartSyncDaemon ==
    /\ NoCallInProgress /\ daemon.calls < MaxDaemonCalls
    /\ daemon' = IF daemon.running
                 THEN [daemon EXCEPT !.calls = @ + 1]
                 ELSE [daemon EXCEPT !.calls = @ + 1,
                                     !.running = TRUE,
                                     !.worker = Append(@, "check"),
                                     !.sync_thread = Len(daemon.worker) + 1,
                                     !.began = {}]
    /\ DaemonRest

\* stop_sync_daemon up to the join
StopSyncDaemon ==
    /\ NoCallInProgress /\ daemon.calls < MaxDaemonCalls
    /\ daemon' = IF ~daemon.running
                 THEN [daemon EXCEPT !.calls = @ + 1]
                 ELSE [daemon EXCEPT !.calls = @ + 1,
                                     !.running = FALSE,
                                     !.joining = daemon.sync_thread]
    /\ DaemonRest

\* sync_thread.join(timeout=5) returns because the thread has ended
JoinReturns ==
    /\ daemon.joining # 0
    /\ daemon.worker[daemon.joining] = "exited"
    /\ daemon' = [daemon EXCEPT !.joining = 0]
    /\ DaemonRest

\* sync_thread.join(timeout=5) returns after 5 s with the thread still in
\* the body of the loop: an iteration makes up to two requests per peer,
\* each of which may take REQUEST_TIMEOUT
JoinTimesOut ==
    /\ daemon.joining # 0
    /\ daemon.worker[daemon.joining] = "iterating"
    /\ daemon' = [daemon EXCEPT !.joining = 0]
    /\ DaemonRest

\* while self.running
WorkerCheck(w) ==
    /\ w \in DOMAIN daemon.worker /\ daemon.worker[w] = "check"
    /\ daemon.running => daemon.iterations < MaxDaemonIterations
    /\ daemon' = IF daemon.running
                 THEN [daemon EXCEPT !.worker[w] = "iterating",
                                     !.iterations = @ + 1,
                                     !.began = @ \cup {w}]
                 ELSE [daemon EXCEPT !.worker[w] = "exited", !.began = @ \ {w}]
    /\ DaemonRest

\* the body of the loop has run: push, pull, cleanup tick
WorkerIterated(w) ==
    /\ w \in DOMAIN daemon.worker /\ daemon.worker[w] = "iterating"
    /\ daemon' = [daemon EXCEPT !.worker[w] = "sleeping"]
    /\ DaemonRest

\* time.sleep(self.sync_interval) is over
WorkerWakes(w) ==
    /\ w \in DOMAIN daemon.worker /\ daemon.worker[w] = "sleeping"
    /\ daemon' = [daemon EXCEPT !.worker[w] = "check"]
    /\ DaemonRest

NextDaemon ==
    \/ StartSyncDaemon
    \/ StopSyncDaemon
    \/ JoinReturns
    \/ JoinTimesOut
    \/ \E w \in 1..MaxDaemonCalls : WorkerCheck(w)
    \/ \E w \in 1..MaxDaemonCalls : WorkerIterated(w)
    \/ \E w \in 1..MaxDaemonCalls : WorkerWakes(w)

SpecDaemon == Init /\ [][NextDaemon]_vars

(***************************************************************************)
(* Claims about the daemon, checked under SpecDaemon.                      *)
(***************************************************************************)
\* C30: after any sequence of start_sync_daemon and stop_sync_daemon calls
\* at most one sync-loop worker is running cycles: never have two threads
\* entered the loop body since the last start call.
C30_OneWorkerLoops == Cardinality(daemon.began) <= 1


(***************************************************************************)
(* SpecMetrics: _record_conflict run by the sync daemon's pull phase and   *)
(* by an /internal/sync handler thread of site "na" at the same time, and  *)
(* get_conflict_metrics.  No lock guards conflict_metrics; d[k] += 1 is a  *)
(* load, an add and a store, and another thread may run in between.        *)
(***************************************************************************)
MaxMetricCalls == 2

MetricsRest ==
    UNCHANGED <<now, store, oplog, logSeq, syncMeta, engine, pc, cycles,
                isolated, faults, writes, usedIds, wrote, resp, lastPush,
                resolveCall, contacts, gather, daemon>>

\* a thread enters _record_conflict(collection, document_id, outcome)
RecordCall(th, collection, document_id, outcome) ==
    /\ threads[th].at = "idle"
    /\ observed.calls < MaxMetricCalls
    /\ threads' = [threads EXCEPT ![th] =
           [NoThread EXCEPT !.at = "load_total", !.collection = collection,
                            !.document_id = document_id, !.outcome = outcome]]
    /\ observed' = [observed EXCEPT !.calls = @ + 1]
    /\ UNCHANGED metrics
    /\ MetricsRest

\* conflict_metrics after the thread's next step, statement by statement
RecordStepMetrics(m, l, t) ==
    CASE l.at = "store_total" -> [m EXCEPT !.total_conflicts = l.reg + 1]
      [] l.at = "store_outcome" -> [m EXCEPT ![l.outcome] = l.reg + 1]
      [] l.at = "create" ->
            [m EXCEPT !.by_collection[l.collection] =
                          [NoBreakdown EXCEPT !.present = TRUE]]
      [] l.at = "store_ctotal" ->
            [m EXCEPT !.by_collection[l.collection].total = l.reg + 1]
      [] l.at = "store_coutcome" ->
            [m EXCEPT !.by_collection[l.collection][l.outcome] = l.reg + 1]
      [] l.at = "append" ->
            [m EXCEPT !.recent_conflicts = Append(@,
                [collection |-> l.collection, document_id |-> l.document_id,
                 outcome |-> l.outcome, timestamp |-> Iso(t)])]
      [] l.at = "trim" ->
            [m EXCEPT !.recent_conflicts =
                          IF Len(@) > RecentCap THEN Tail(@) ELSE @]
      [] OTHER -> m

\* the thread's locals after its next step: the value a load has read, and
\* the statement that follows
RecordStepLocals(m, l) ==
    CASE l.at = "load_total" ->
            [l EXCEPT !.at = "store_total", !.reg = m.total_conflicts]
      [] l.at = "store_total" -> [l EXCEPT !.at = "load_outcome"]
      [] l.at = "load_outcome" ->
            [l EXCEPT !.at = "store_outcome", !.reg = m[l.outcome]]
      [] l.at = "store_outcome" -> [l EXCEPT !.at = "test"]
      [] l.at = "test" ->
            [l EXCEPT !.at = IF m.by_collection[l.collection].present
                             THEN "load_ctotal" ELSE "create"]
      [] l.at = "create" -> [l EXCEPT !.at = "load_ctotal"]
      [] l.at = "load_ctotal" ->
            [l EXCEPT !.at = "store_ctotal",
                      !.reg = m.by_collection[l.collection].total]
      [] l.at = "store_ctotal" -> [l EXCEPT !.at = "load_coutcome"]
      [] l.at = "load_coutcome" ->
            [l EXCEPT !.at = "store_coutcome",
                      !.reg = m.by_collection[l.collection][l.outcome]]
      [] l.at = "store_coutcome" -> [l EXCEPT !.at = "append"]
      [] l.at = "append" -> [l EXCEPT !.at = "trim"]
      [] OTHER -> NoThread

\* one statement of _record_conflict by thread th
RecordStep(th) ==
    /\ threads[th].at # "idle"
    /\ metrics' = [metrics EXCEPT !["na"] = RecordStepMetrics(@, threads[th], now)]
    /\ threads' = [threads EXCEPT ![th] = RecordStepLocals(metrics["na"], @)]
    /\ observed' = IF threads[th].at = "append"
                   THEN [observed EXCEPT !.history = Append(@,
                            [collection |-> threads[th].collection,
                             document_id |-> threads[th].document_id,
                             outcome |-> threads[th].outcome,
                             timestamp |-> Iso(now)])]
                   ELSE observed
    /\ MetricsRest

\* get_conflict_metrics: dict.copy() copies the top level only; the caller's
\* dict holds the counters by value and the engine's own by_collection dict
\* and recent_conflicts list by reference
GetConflictMetrics ==
    /\ ~observed.taken
    /\ observed' = [observed EXCEPT !.taken = TRUE,
                                    !.snapshot = metrics["na"],
                                    !.at_return = metrics["na"]]
    /\ UNCHANGED <<metrics, threads>>
    /\ MetricsRest

\* what the caller reads in the dict it was handed: its own counters, and
\* the engine's live by_collection and recent_conflicts
SnapshotView ==
    [observed.snapshot EXCEPT
        !.by_collection = metrics["na"].by_collection,
        !.recent_conflicts = metrics["na"].recent_conflicts]

NextMetrics ==
    \/ \E th \in ThreadNames, c \in Collections, o \in Outcomes :
          RecordCall(th, c, "p1", o)
    \/ \E th \in ThreadNames : RecordStep(th)
    \/ GetConflictMetrics

SpecMetrics == Init /\ [][NextMetrics]_vars

\* C31: the value get_conflict_metrics returned is a snapshot: whatever is
\* recorded afterwards, the caller still reads in it the counters, the
\* by_collection breakdown and the recent_conflicts list of the moment of
\* the call.
C31_SnapshotKept == observed.taken => SnapshotView = observed.at_return


\* no thread is inside _record_conflict
NoRecordInProgress == \A th \in ThreadNames : threads[th].at = "idle"

\* the counters of one record add up
AddsUp(total, r) == total = r.remote_wins + r.local_wins + r.unresolved

\* C38: whenever no _record_conflict call is in progress, total_conflicts
\* equals remote_wins + local_wins + unresolved, the same holds for every
\* by_collection record, and the by_collection totals sum to
\* total_conflicts, also when the pull phase and an /internal/sync handler
\* thread have recorded conflicts at the same time.
C38_CountersAddUp ==
    NoRecordInProgress =>
        LET m == metrics["na"]
        IN /\ AddsUp(m.total_conflicts, m)
           /\ \A c \in Collections :
                 AddsUp(m.by_collection[c].total, m.by_collection[c])
           /\ m.total_conflicts =
                 m.by_collection["posts"].total + m.by_collection["users"].total


(***************************************************************************)
(* SpecRecent: one thread records conflict after conflict at site "na",    *)
(* more of them than recent_conflicts keeps.                               *)
(***************************************************************************)
MaxRecorded == 12
\* the documents in conflict, one per call, and the kinds of conflict
RecentIds == <<"d1", "d2", "d3", "d4", "d5", "d6", "d7", "d8", "d9", "d10",
               "d11", "d12", "d13", "d14">>
RecentKinds == {[collection |-> "posts", outcome |-> "remote_wins"],
                [collection |-> "users", outcome |-> "local_wins"]}

\* the next _record_conflict call, from entry to return
RecordNext(kind) ==
    /\ observed.calls < MaxRecorded
    /\ metrics' = [metrics EXCEPT !["na"] =
           RecordConflict(@, kind.collection, RecentIds[observed.calls + 1],
                          kind.outcome, now)]
    /\ observed' = [observed EXCEPT
           !.calls = @ + 1,
           !.history = Append(@, [collection |-> kind.collection,
                                  document_id |-> RecentIds[observed.calls + 1],
                                  outcome |-> kind.outcome,
                                  timestamp |-> Iso(now)])]
    /\ UNCHANGED threads
    /\ MetricsRest

NextRecent == \E kind \in RecentKinds : RecordNext(kind)

SpecRecent == Init /\ [][NextRecent]_vars

\* C35: after n recorded conflicts recent_conflicts holds exactly the most
\* recent min(n, 10) records, in the order they were recorded: never more
\* than 10, and the oldest is the one evicted.
C35_RecentIsLastTen ==
    LET h == observed.history
        n == Len(h)
        r == metrics["na"].recent_conflicts
    IN /\ Len(r) = (IF n < RecentCap THEN n ELSE RecentCap)
       /\ r = SubSeq(h, n - Len(r) + 1, n)

\* twelve conflicts recorded: the first two are gone
C35_Witness ==
    /\ Len(observed.history) = MaxRecorded
    /\ Len(metrics["na"].recent_conflicts) = RecentCap
    /\ metrics["na"].recent_conflicts[1].document_id = "d3"


(***************************************************************************)
(* SpecStatus: the sync daemon of site "na" reports contact after contact  *)
(* to _update_region_status while a request handler thread runs            *)
(* get_island_mode_status.  No lock guards region_status,                  *)
(* island_mode_active and island_mode_start_time: each thread takes one    *)
(* statement at a time.                                                    *)
(***************************************************************************)
MaxStatusCalls == 4
MaxStatusTime == 3

StatusRest ==
    UNCHANGED <<store, oplog, logSeq, syncMeta, metrics, pc, cycles,
                isolated, faults, writes, usedIds, wrote, resp, lastPush,
                resolveCall, contacts, gather, daemon>>

\* the daemon enters _update_region_status(region_url, is_connected): a new
\* record is stored whole, a known one gets its 'connected' field first
StatusCall(region_url, is_connected) ==
    LET e == engine["na"]
        old == e.region_status[region_url]
    IN /\ threads["daemon"].at = "idle"
       /\ observed.calls < MaxStatusCalls
       /\ engine' = [engine EXCEPT !["na"].region_status[region_url] =
              IF ~old.known
              THEN [known |-> TRUE, connected |-> is_connected,
                    last_success |-> IF is_connected THEN Dt(now) ELSE NoTime,
                    last_attempt |-> Dt(now),
                    consecutive_failures |-> IF is_connected THEN 0 ELSE 1]
              ELSE [old EXCEPT !.connected = is_connected]]
       /\ threads' = [threads EXCEPT !["daemon"] =
              [NoThread EXCEPT !.at = IF old.known THEN "rest" ELSE "check",
                               !.region_url = region_url,
                               !.is_connected = is_connected]]
       /\ observed' = [observed EXCEPT !.calls = @ + 1]
       /\ UNCHANGED now
       /\ StatusRest

\* the engine after the daemon's next statement
StatusStepEngine(e, l, t) ==
    CASE l.at = "rest" ->
            [e EXCEPT !.region_status[l.region_url] =
                [@ EXCEPT !.last_attempt = Dt(t),
                          !.last_success = IF l.is_connected THEN Dt(t) ELSE @,
                          !.consecutive_failures =
                              IF l.is_connected THEN 0 ELSE @ + 1]]
      [] l.at = "check" ->
            \* _check_island_mode up to its first assignment
            IF ConnectedRegions(e) = 0
            THEN CheckIslandMode(e, Cardinality(DOMAIN e.region_status), t)
            ELSE [e EXCEPT !.island_mode_active = FALSE]
      [] OTHER -> [e EXCEPT !.island_mode_start_time = NoTime]

\* the statement the daemon takes after that one
StatusStepAt(e, l) ==
    CASE l.at = "rest" -> "check"
      [] l.at = "check" ->
            IF /\ ConnectedRegions(e) # 0
               /\ e.island_mode_active \/ Present(e.island_mode_start_time)
            THEN "clear_start" ELSE "idle"
      [] OTHER -> "idle"

\* one statement of _update_region_status / _check_island_mode
StatusStep ==
    /\ threads["daemon"].at # "idle"
    /\ engine' = [engine EXCEPT !["na"] =
           StatusStepEngine(@, threads["daemon"], now)]
    /\ threads' = [threads EXCEPT !["daemon"].at =
           StatusStepAt(engine["na"], threads["daemon"])]
    /\ UNCHANGED <<now, observed>>
    /\ StatusRest

\* get_island_mode_status, one read of the engine's fields at a time: the
\* count of connected regions, the test and the use of
\* island_mode_start_time for the duration, island_mode_active for
\* 'is_island', the test and the use of island_mode_start_time for
\* 'isolation_start'.  A use that finds None after a test that found a time
\* raises.
StatusRead ==
    LET e == engine["na"]
        at == threads["handler"].at
        raise == [observed EXCEPT !.result.raised = TRUE, !.returned = TRUE]
    IN /\ ~observed.returned
       /\ CASE at = "idle" ->
                 /\ observed' = [observed EXCEPT
                        !.result.connected_regions = ConnectedRegions(e)]
                 /\ threads' = [threads EXCEPT !["handler"].at = "test_duration"]
            [] at = "test_duration" ->
                 /\ observed' = observed
                 /\ threads' = [threads EXCEPT !["handler"].at =
                        IF Present(e.island_mode_start_time)
                        THEN "use_duration" ELSE "read_active"]
            [] at = "use_duration" ->
                 /\ observed' = IF Present(e.island_mode_start_time)
                                THEN observed ELSE raise
                 /\ threads' = [threads EXCEPT !["handler"].at =
                        IF Present(e.island_mode_start_time)
                        THEN "read_active" ELSE "idle"]
            [] at = "read_active" ->
                 /\ observed' = [observed EXCEPT
                        !.result.is_island = e.island_mode_active]
                 /\ threads' = [threads EXCEPT !["handler"].at = "test_start"]
            [] at = "test_start" ->
                 /\ observed' = IF Present(e.island_mode_start_time)
                                THEN observed
                                ELSE [observed EXCEPT !.returned = TRUE]
                 /\ threads' = [threads EXCEPT !["handler"].at =
                        IF Present(e.island_mode_start_time)
                        THEN "use_start" ELSE "idle"]
            [] OTHER ->
                 /\ observed' = IF Present(e.island_mode_start_time)
                                THEN [observed EXCEPT
                                         !.result.isolation_start =
                                             IsoFormat(e.island_mode_start_time),
                                         !.returned = TRUE]
                                ELSE raise
                 /\ threads' = [threads EXCEPT !["handler"].at = "idle"]
       /\ UNCHANGED <<now, engine>>
       /\ StatusRest

StatusTick ==
    /\ now < MaxStatusTime
    /\ now' = now + 1
    /\ UNCHANGED <<engine, threads, observed>>
    /\ StatusRest

NextStatus ==
    \/ \E p \in RemoteRegions("na"), ok \in BOOLEAN : StatusCall(p, ok)
    \/ StatusStep
    \/ StatusRead
    \/ StatusTick

SpecStatus == Init /\ [][NextStatus]_vars

\* C32: every result get_island_mode_status returns, also while the daemon
\* is updating the liveness state, is consistent: is_island implies
\* connected_regions = 0, and is_island implies isolation_start is not
\* null.
C32_StatusConsistent ==
    (observed.returned /\ ~observed.result.raised /\ observed.result.is_island)
        => /\ observed.result.connected_regions = 0
           /\ Present(observed.result.isolation_start)

\* the first half alone: an island with a connected region
C32_IslandNotConnected ==
    (observed.returned /\ ~observed.result.raised /\ observed.result.is_island)
        => observed.result.connected_regions = 0

\* the second half alone: an island without a start
C32_IslandHasStart ==
    (observed.returned /\ ~observed.result.raised /\ observed.result.is_island)
        => Present(observed.result.isolation_start)


(***************************************************************************)
(* Claims about the order of the phases, checked under SpecIsland.         *)
(***************************************************************************)
\* the number of contacts of a phase in a list of contacts
PhaseContacts(cs, phase) ==
    Cardinality({i \in 1..Len(cs) : cs[i].phase = phase})

\* the pushes of a list of contacts all come before its pulls
PushesBeforePulls(cs) ==
    \A i, j \in 1..Len(cs) :
        (cs[i].phase = "push" /\ cs[j].phase = "pull") => i < j

\* a step of the sync loop of na keeps the order of the phases
C33Step ==
    LET peers == Len(PeerOrder(engine["na"]))
        contacted == contacts' # contacts
        made == contacts'[Len(contacts')]
    IN \* the phases follow each other in the order push, pull, cleanup
       /\ pc'["na"] # pc["na"] =>
             <<pc["na"], pc'["na"]>> \in
                 {<<"push", "pull">>, <<"pull", "cleanup">>, <<"cleanup", "push">>}
       \* a contact belongs to the phase in progress, and within one
       \* iteration every push comes before every pull
       /\ (contacted /\ contacts' # <<>>) =>
             /\ made.phase = pc["na"]
             /\ PushesBeforePulls(contacts')
       \* the pull phase starts when every peer has been pushed to (or
       \* there was nothing to push), whatever the outcomes
       /\ (pc["na"] = "push" /\ pc'["na"] = "pull") =>
             PhaseContacts(contacts', "push") \in {0, peers}
       \* the clean-up starts when every peer has been pulled from
       /\ (pc["na"] = "pull" /\ pc'["na"] = "cleanup") =>
             PhaseContacts(contacts', "pull") = peers
       \* the last contact of a phase is followed by the next phase, also
       \* when it failed
       /\ (contacted /\ contacts' # <<>> /\
           PhaseContacts(contacts', made.phase) = peers) =>
             pc'["na"] = (IF made.phase = "push" THEN "pull" ELSE "cleanup")
       \* a clean-up that fails is followed by the next iteration
       /\ (pc["na"] = "cleanup" /\ faults' # faults) => pc'["na"] = "push"

\* C33: in every iteration of the sync loop the pushes to all peers are
\* over before any pull starts, the clean-up comes after the pulls and the
\* next iteration after the clean-up; no two phases overlap, and a failure
\* in one phase does not skip the phases that follow it.
C33_PhasesInOrder == [][C33Step]_vars

\* every push of the iteration failed, every peer has been pulled from all
\* the same, and the clean-up is next
C33_Witness ==
    /\ pc["na"] = "cleanup"
    /\ Len(PeerOrder(engine["na"])) >= 2
    /\ PhaseContacts(contacts, "push") = Len(PeerOrder(engine["na"]))
    /\ PhaseContacts(contacts, "pull") = Len(PeerOrder(engine["na"]))
    /\ \A i \in 1..Len(contacts) : contacts[i].phase = "push" => ~contacts[i].ok


(***************************************************************************)
(* Claims about failing entries in a batch, checked under Spec.            *)
(***************************************************************************)
\* the entry without its collection field
Malformed(op) == [op EXCEPT !.collection = Absent]
\* the entry, with a store that fails when the entry is applied
WithStoreError(op) ==
    [f \in DOMAIN op \cup {"store_error"} |->
        IF f = "store_error" THEN TRUE ELSE op[f]]
\* the batch with an entry put in at position k, and without its k-th entry
InsertAt(batch, k, op) ==
    SubSeq(batch, 1, k - 1) \o <<op>> \o SubSeq(batch, k, Len(batch))
RemoveAt(batch, k) ==
    SubSeq(batch, 1, k - 1) \o SubSeq(batch, k + 1, Len(batch))

\* whatever entry of the batch fails at p, the others are applied as if the
\* failing one were not in the batch
FailureLeavesOthers(p, batch) ==
    /\ \A k \in 1..Len(batch) :
          /\ ApplyOperations(SiteNow(p), [batch EXCEPT ![k] = WithStoreError(@)], now)
                = ApplyOperations(SiteNow(p), RemoveAt(batch, k), now)
          /\ ApplyOperations(SiteNow(p), [batch EXCEPT ![k] = Malformed(@)], now)
                = ApplyOperations(SiteNow(p), RemoveAt(batch, k), now)
          /\ ApplyOperations(SiteNow(p), InsertAt(batch, k, Malformed(batch[k])), now)
                = ApplyOperations(SiteNow(p), batch, now)

\* C34: in _apply_operations the failure of one entry (a store error or a
\* malformed entry) does not stop the batch: every other entry is still
\* applied, in batch order.
C34_FailureDoesNotStopBatch ==
    Idle => \A s \in Sites : \A p \in RemoteRegions(s) :
                FailureLeavesOthers(p, WireBatch(s))

\* the first entry of a batch of two fails at a peer and the second one
\* still changes the peer
C34_Witness ==
    /\ Idle
    /\ \E s \in Sites : \E p \in RemoteRegions(s) :
          /\ Len(WireBatch(s)) = 2
          /\ ApplyOperations(SiteNow(p),
                 [WireBatch(s) EXCEPT ![1] = WithStoreError(@)], now) # SiteNow(p)
          /\ ApplyOperations(SiteNow(p),
                 [WireBatch(s) EXCEPT ![1] = Malformed(@)], now) # SiteNow(p)


(***************************************************************************)
(* Claims about the string timestamps of a winning local document,         *)
(* checked under SpecResolve.                                              *)
(***************************************************************************)
\* the call under study decided that the local version wins
LocalWon ==
    /\ resolveCall.done
    /\ metrics["na"].local_wins = resolveCall.before.local_wins + 1

\* the field afterwards, given the field before: a string has become the
\* native timestamp of the same instant, anything else is as it was
MadeNative(before, after) ==
    after = (IF IsStr(before) THEN Dt(before.t) ELSE before)

\* C36: when local wins and the local timestamp or last_modified is a
\* string, that field is rewritten as a native timestamp denoting the same
\* instant as the string it replaces; no other instant and no other field
\* of the document changes.
C36_StringsMadeNative ==
    LocalWon => /\ MadeNative(resolveCall.local.ts, CallAfter.ts)
                /\ MadeNative(resolveCall.local.lm, CallAfter.lm)
                /\ CallAfter.id = resolveCall.local.id
                /\ CallAfter.msg = resolveCall.local.msg
                /\ CallAfter.oid = resolveCall.local.oid

\* the part of it that concerns last_modified and the other fields
C36_LastModifiedMadeNative ==
    LocalWon => /\ MadeNative(resolveCall.local.lm, CallAfter.lm)
                /\ CallAfter.id = resolveCall.local.id
                /\ CallAfter.msg = resolveCall.local.msg
                /\ CallAfter.oid = resolveCall.local.oid


(***************************************************************************)
(* Claims about an update applied where the document is missing, checked   *)
(* under Spec.                                                             *)
(***************************************************************************)
\* the update entries of a site's log, as they go over the wire
UpdateOps(o) ==
    {SerializeOp(oplog[o][i]) : i \in {j \in 1..Len(oplog[o]) :
                                          oplog[o][j].operation_type = "update"}}

\* C37: after an update logged by a PUT handler is applied at a site that
\* does not hold the document, a lookup by {<singular>_id: document_id}
\* finds exactly one document, and applying the same update again inserts
\* no further document.
C37_UpdateAsInsertOnce ==
    Idle => \A s \in Sites : \A o \in Sites \ {s} : \A op \in UpdateOps(o) :
        WithId(store[s][op.collection], op.document_id) = {} =>
            /\ Cardinality(WithId(AppliedOnce(s, op).store[op.collection],
                                  op.document_id)) = 1
            /\ Len(AppliedTwice(s, op).store[op.collection])
                  = Len(AppliedOnce(s, op).store[op.collection])

\* the first half alone: the document can be looked up after the apply
C37_FoundAfterApply ==
    Idle => \A s \in Sites : \A o \in Sites \ {s} : \A op \in UpdateOps(o) :
        WithId(store[s][op.collection], op.document_id) = {} =>
            Cardinality(WithId(AppliedOnce(s, op).store[op.collection],
                               op.document_id)) = 1

\* the second half alone: the second apply inserts nothing
C37_SecondApplyInsertsNothing ==
    Idle => \A s \in Sites : \A o \in Sites \ {s} : \A op \in UpdateOps(o) :
        WithId(store[s][op.collection], op.document_id) = {} =>
            Len(AppliedTwice(s, op).store[op.collection])
                = Len(AppliedOnce(s, op).store[op.collection])


(***************************************************************************)
(* SpecApply: the entries that na logged for post p1 are applied at eu by  *)
(* two threads at the same time (the daemon's pull phase and an            *)
(* /internal/sync handler, or two handlers; the threads of the model stand *)
(* for either pair).  The lookup and the write that follows it are two     *)
(* calls of the store; another thread may run in between.                  *)
(***************************************************************************)
MaxApplyCalls == 4

\* the log of na after POST /api/posts, PUT /api/posts/p1 and
\* DELETE /api/posts/p1, and its entries as they go over the wire
ApplyLog ==
    LET created == [NewPost("p1", 0) EXCEPT !.oid = "oid"]
        l1 == QueueOperation(<<>>, 0, TRUE, "insert", "posts", "p1", created, 0, "na")
        l2 == QueueOperation(l1, 1, TRUE, "update", "posts", "p1",
                             [NoDoc EXCEPT !.msg = "B", !.lm = Dt(1)], 1, "na")
    IN QueueOperation(l2, 2, TRUE, "delete", "posts", "p1", NoDoc, 2, "na")
ApplyOps == {SerializeOp(ApplyLog[i]) : i \in 1..Len(ApplyLog)}

ApplyRest ==
    UNCHANGED <<now, oplog, logSeq, syncMeta, engine, pc, cycles,
                isolated, faults, writes, usedIds, wrote, resp, lastPush,
                resolveCall, contacts, gather, daemon>>

\* the thread takes the entry and looks the document up (find_one); a
\* delete needs no lookup
ApplyFind(th, op) ==
    LET docs == store["eu"][op.collection]
        i == FindOne(docs, op.document_id)
    IN /\ threads[th].at = "idle"
       /\ observed.calls < MaxApplyCalls
       /\ threads' = [threads EXCEPT ![th] =
              [NoThread EXCEPT !.at = "found",
                               !.operations = <<op>>,
                               !.existing = (i # 0),
                               !.local = IF i = 0 THEN NoDoc ELSE docs[i]]]
       /\ observed' = [observed EXCEPT !.calls = @ + 1]
       /\ UNCHANGED <<store, metrics>>
       /\ ApplyRest

\* the thread acts on what its lookup found: insert_one when it found
\* nothing, _resolve_conflict with the document it found otherwise;
\* delete_one for a delete.  What insert_one raises is caught in the loop.
ApplyAct(th) ==
    LET op == threads[th].operations[1]
        c == op.collection
        docs == store["eu"][c]
        data == DeserializeTimestamps(op.data)
        r == ResolveConflict(docs, metrics["eu"], c, op.document_id, data,
                             threads[th].local, now)
    IN /\ threads[th].at = "found"
       /\ CASE op.operation_type = "delete" ->
                 /\ store' = [store EXCEPT !["eu"][c] = DeleteOne(docs, op.document_id)]
                 /\ UNCHANGED <<metrics, observed>>
            [] threads[th].existing ->
                 /\ store' = [store EXCEPT !["eu"][c] = r.docs]
                 /\ metrics' = [metrics EXCEPT !["eu"] = r.metrics]
                 /\ UNCHANGED observed
            [] DuplicateKey(docs, data) ->
                 /\ observed' = [observed EXCEPT !.events = @ \cup {"duplicate_key"}]
                 /\ UNCHANGED <<store, metrics>>
            [] OTHER ->
                 /\ store' = [store EXCEPT !["eu"][c] = InsertOne(docs, data)]
                 /\ observed' = [observed EXCEPT !.events = @ \cup {"inserted"}]
                 /\ UNCHANGED metrics
       /\ threads' = [threads EXCEPT ![th] = NoThread]
       /\ ApplyRest

NextApply ==
    \/ \E th \in ThreadNames, op \in ApplyOps : ApplyFind(th, op)
    \/ \E th \in ThreadNames : ApplyAct(th)

SpecApply == Init /\ [][NextApply]_vars

\* C39: a site never holds two documents with the same post_id / user_id,
\* also when the same insert (or an update applied as insert) is applied at
\* the same time by the pull phase and an /internal/sync handler, or by two
\* handlers.
C39_NoTwoWithSameId ==
    \A c \in Collections : \A id \in PostIds \cup UserIds :
        Cardinality(WithId(store["eu"][c], id)) <= 1

\* two threads found nothing for the same insert; the first one inserted the
\* document and the store refused the second one's
C39_Witness ==
    /\ "duplicate_key" \in observed.events
    /\ \A th \in ThreadNames : threads[th].at = "idle"
    /\ Cardinality(WithId(store["eu"]["posts"], "p1")) = 1


(***************************************************************************)
(* SpecPull: site na pulls from site eu while the clients of eu keep       *)
(* writing.  Post p1 was created at na and pushed to eu before; eu logs    *)
(* its updates.  The request of a pull (eu builds its response) and its    *)
(* receipt (na applies the response and stores the current time as the     *)
(* checkpoint) are separate steps.                                         *)
(***************************************************************************)
MaxPullTime == 3

InitPull ==
    /\ now = 0
    /\ store = [s \in Sites |-> [c \in Collections |->
                  IF c = "posts"
                  THEN <<[NewPost("p1", 0) EXCEPT
                             !.oid = IF s = "na" THEN "oid" ELSE "str"]>>
                  ELSE <<>>]]
    /\ metrics = [s \in Sites |-> NoMetrics]
    /\ resolveCall = NoCall
    /\ engine = [s \in Sites |-> NewEngine(s)]
    /\ InitRest

PullRest ==
    UNCHANGED <<now, oplog, logSeq, pc, cycles, isolated, faults, writes,
                usedIds, wrote, resp, lastPush, resolveCall, contacts,
                gather, daemon>>

\* requests.get(eu/internal/changes, since=checkpoint): eu builds its
\* response from its log as it is now
PullRequest ==
    LET response == GetChanges(oplog["eu"], "eu",
                               GetLastSyncTime(syncMeta["na"], "eu"))
    IN /\ threads["daemon"].at = "idle"
       /\ threads' = [threads EXCEPT !["daemon"] =
              [NoThread EXCEPT !.at = "requested", !.reg = response.status,
                               !.operations = response.operations]]
       /\ UNCHANGED <<store, metrics, syncMeta, engine, observed>>
       /\ PullRest

\* the response arrives at na: _pull_from_region from line 266 on
PullReceive ==
    LET response == [status |-> threads["daemon"].reg,
                     operations |-> threads["daemon"].operations]
    IN /\ threads["daemon"].at = "requested"
       /\ PullDone("na", PullAnswered(PullStart("na"), "eu", now, response))
       /\ threads' = [threads EXCEPT !["daemon"] = NoThread]
       /\ observed' = [observed EXCEPT !.pulled =
              @ \cup {response.operations[i].oid : i \in 1..Len(response.operations)}]
       /\ PullRest

\* the clock of the sites moves on
PullTick ==
    /\ now < MaxPullTime
    /\ now' = now + 1
    /\ wrote' = {}
    /\ UNCHANGED <<store, oplog, logSeq, syncMeta, engine, metrics, pc, cycles,
                   isolated, faults, writes, usedIds, resp, lastPush,
                   resolveCall, contacts, gather, daemon, threads, observed>>

NextPull ==
    \/ UpdatePost("eu", "p1", "ok")
    \/ PullRequest
    \/ PullReceive
    \/ PullTick

SpecPull == InitPull /\ [][NextPull]_vars

\* the operations of eu's own log that no pull has brought to na
NotYetPulled ==
    {i \in 1..Len(oplog["eu"]) :
        /\ oplog["eu"][i].region_origin = "eu"
        /\ oplog["eu"][i].oid \notin observed.pulled}

\* the checkpoint na keeps for eu
Checkpoint == GetLastSyncTime(syncMeta["na"], "eu")

\* C40: with synchronized clocks, the pull checkpoint kept for peer P never
\* advances past the timestamp of an operation of P's log that this site
\* has not yet received from a pull: neither an operation logged at P
\* between P building its response and the puller storing its current time,
\* nor the operations beyond the cap of one response, are skipped by later
\* pulls.
C40_CheckpointNotPast ==
    Present(Checkpoint) =>
        \A i \in NotYetPulled : Instant(Checkpoint) <= Instant(oplog["eu"][i].timestamp)

=========================================================================
